---- MODULE Spec2Model ----
(***************************************************************************)
(* Hybrid storage (ArmazenamentoHibrido), record normalization and the     *)
(* account registry of the finance dashboard, as a state machine.          *)
(*                                                                         *)
(* Representation.                                                         *)
(*   - a text that the code inspects character by character (amounts,      *)
(*     descriptions) is a sequence of one-character strings;               *)
(*   - a text the code only compares is a TLA+ string;                     *)
(*   - an amount (a Python float with at most two decimals) is an integer  *)
(*     number of centavos;                                                 *)
(*   - a date is a day number >= 1; NaT is 0;                              *)
(*   - a date cell of a file is [f, d]: f = "iso" (YYYY-MM-DD of day d),   *)
(*     "lixo" (a text no format parses) or "vazio" (blank).                *)
(***************************************************************************)
EXTENDS Integers, Sequences, FiniteSets, TLC

VARIABLES
    credenciais,   \* CAMINHO_CREDENCIAIS.exists()
    gspread,       \* GSPREAD_DISPONIVEL
    modo,          \* ArmazenamentoHibrido.modo: "None" before __init__
    worksheet,     \* ArmazenamentoHibrido.worksheet: "None" or "ws"
    planilha,      \* rows of the remote worksheet, the header row included
    csv,           \* the file CAMINHO_CSV: [st, colunas, linhas]
    contas,        \* the file CAMINHO_CONTAS: [st, lista]
    tela,          \* what the page shows after the last form submission
    cache,         \* the entry of st.cache_data for carregar_dados()
    sessoes,       \* per browser session: the table it loaded, the rewrite in flight
    ultimo         \* the last call: its arguments and what it returned

vars == <<credenciais, gspread, modo, worksheet, planilha, csv, contas, tela, cache, sessoes,
          ultimo>>

(***************************************************************************)
(* Bounds of the model.                                                    *)
(***************************************************************************)
MaxLinhas == 2      \* rows a file or worksheet may hold
MaxContas == 3      \* accounts the registry may hold
MaxCriadas == 4     \* salvar_conta calls that succeed in one run

(***************************************************************************)
(* Text helpers (Python str methods used by the code).                     *)
(***************************************************************************)
RECURSIVE lstrip(_)
lstrip(s) == IF s # <<>> /\ Head(s) = " " THEN lstrip(Tail(s)) ELSE s

RECURSIVE rstrip(_)
rstrip(s) == IF s # <<>> /\ s[Len(s)] = " " THEN rstrip(SubSeq(s, 1, Len(s) - 1)) ELSE s

strip(s) == rstrip(lstrip(s))

\* str.replace(velho, novo), velho non-empty
RECURSIVE replace(_, _, _)
replace(s, velho, novo) ==
    IF Len(s) < Len(velho) THEN s
    ELSE IF SubSeq(s, 1, Len(velho)) = velho
         THEN novo \o replace(SubSeq(s, Len(velho) + 1, Len(s)), velho, novo)
         ELSE <<Head(s)>> \o replace(Tail(s), velho, novo)

Digitos == <<"0", "1", "2", "3", "4", "5", "6", "7", "8", "9">>

EhDigito(c) == \E i \in 1..10 : Digitos[i] = c

ValorDigito(c) == (CHOOSE i \in 1..10 : Digitos[i] = c) - 1

TodosDigitos(s) == \A i \in 1..Len(s) : EhDigito(s[i])

RECURSIVE ValorInteiro(_)
ValorInteiro(s) == IF s = <<>> THEN 0
                   ELSE 10 * ValorInteiro(SubSeq(s, 1, Len(s) - 1)) + ValorDigito(s[Len(s)])

RECURSIVE TextoInteiro(_)
TextoInteiro(n) == IF n < 10 THEN <<Digitos[n + 1]>>
                   ELSE TextoInteiro(n \div 10) \o <<Digitos[(n % 10) + 1]>>

PosicaoPonto(s) == IF \E i \in 1..Len(s) : s[i] = "."
                   THEN CHOOSE i \in 1..Len(s) : s[i] = "." /\ \A j \in 1..(i - 1) : s[j] # "."
                   ELSE 0

(***************************************************************************)
(* float(text): [ok, v], v in centavos.  Accepts digits with at most one   *)
(* decimal point and at most two decimals, surrounding blanks ignored;     *)
(* anything else is a ValueError (ok = FALSE).  The texts the model feeds  *)
(* it never carry a sign, an exponent or a third decimal.                  *)
(***************************************************************************)
Centavos(frac) == IF Len(frac) = 1 THEN 10 * ValorInteiro(frac) ELSE ValorInteiro(frac)

ParseFloatDigitos(int, frac) ==
    IF Len(int) + Len(frac) > 0 /\ TodosDigitos(int) /\ TodosDigitos(frac) /\ Len(frac) <= 2
    THEN [ok |-> TRUE, v |-> 100 * ValorInteiro(int) + Centavos(frac)]
    ELSE [ok |-> FALSE, v |-> 0]

ParseFloatPartes(s, p) ==
    IF p = 0 THEN ParseFloatDigitos(s, <<>>)
    ELSE ParseFloatDigitos(SubSeq(s, 1, p - 1), SubSeq(s, p + 1, Len(s)))

ParseFloatLimpo(s) == ParseFloatPartes(s, PosicaoPonto(s))

ParseFloat(texto) == ParseFloatLimpo(strip(texto))

\* repr(float), as DataFrame.to_csv writes a float column: shortest decimals, at least one
Decimais(c) ==
    IF c = 0 THEN <<".", "0">>
    ELSE IF c % 10 = 0 THEN <<".", Digitos[(c \div 10) + 1]>>
    ELSE <<".", Digitos[(c \div 10) + 1], Digitos[(c % 10) + 1]>>

ReprFloat(v) == TextoInteiro(v \div 100) \o Decimais(v % 100)

\* the "," grouping of format(x, ",.2f") on the integer digits
RECURSIVE Agrupar(_)
Agrupar(d) == IF Len(d) <= 3 THEN d
              ELSE Agrupar(SubSeq(d, 1, Len(d) - 3)) \o <<",">> \o SubSeq(d, Len(d) - 2, Len(d))

\* f"R$ {x:,.2f}".replace(',', 'X').replace('.', ',').replace('X', '.')
DuasCasas(c) == <<".", Digitos[(c \div 10) + 1], Digitos[(c % 10) + 1]>>

FormatarValorPlanilha(v) ==
    replace(replace(replace(<<"R", "$", " ">> \o Agrupar(TextoInteiro(v \div 100))
                                \o DuasCasas(v % 100),
                            <<",">>, <<"X">>), <<".">>, <<",">>), <<"X">>, <<".">>)

(***************************************************************************)
(* Cells of a DataFrame column before normalization.                       *)
(*   Valor: [t, n, s] with t = "num" (a float, n centavos), "str" (the     *)
(*   text s) or "nan".   A text cell that pandas read as missing is NaN.   *)
(***************************************************************************)
NaN == "<NaN>"
NaNTexto == <<"<NaN>">>
NaT == 0

Num(n) == [s |-> <<>>, n |-> n, t |-> "num"]
Str(s) == [s |-> s, n |-> 0, t |-> "str"]
ValorNaN == [s |-> <<>>, n |-> 0, t |-> "nan"]

\* ArmazenamentoHibrido._limpar_valor
FloatOuZero(f) == IF f.ok THEN f.v ELSE 0

\* `try: return float(valor_str)` with no except clause: the ValueError leaves
TentarFloat_sem_except(f) == [exc |-> ~f.ok, v |-> f.v]

\* `try: return float(valor_str) except ValueError: return 0.0`: [exc, v]
TentarFloat(f) == [exc |-> FALSE, v |-> FloatOuZero(f)]

\* a call of _limpar_valor: [exc, v], exc telling an exception that leaves it
Limpar(valor) ==
    IF valor.t = "nan" \/ (valor.t = "str" /\ valor.s = <<>>) THEN [exc |-> FALSE, v |-> 0]
    ELSE IF valor.t = "num" THEN [exc |-> FALSE, v |-> valor.n]
    ELSE TentarFloat(ParseFloat(replace(replace(strip(replace(valor.s, <<"R", "$">>, <<>>)),
                                                <<".">>, <<>>), <<",">>, <<".">>)))

\* _limpar_valor without `if isinstance(valor, (int, float))`: a number goes
\* through str() and the replacements like a text
_limpar_valor_sem_isinstance(valor) ==
    IF valor.t = "nan" \/ (valor.t = "str" /\ valor.s = <<>>) THEN 0
    ELSE FloatOuZero(ParseFloat(replace(replace(strip(replace(
             IF valor.t = "num" THEN ReprFloat(valor.n) ELSE valor.s,
             <<"R", "$">>, <<>>)), <<".">>, <<>>), <<",">>, <<".">>)))

_limpar_valor(valor) == Limpar(valor).v

\* str.upper() on the labels the model uses
upper(s) ==
    CASE s \in {"Receita", "receita", "RECEITA"} -> "RECEITA"
      [] s \in {"Despesa", "despesa"} -> "DESPESA"
      [] s \in {"Entrada"} -> "ENTRADA"
      [] s \in {"Pago"} -> "PAGO"
      [] s \in {"Comum", "comum"} -> "COMUM"
      [] s \in {"Vale Refeição", "vale refeição"} -> "VALE REFEIÇÃO"
      [] s \in {"VR", "vr"} -> "VR"
      [] s \in {"Nubank"} -> "NUBANK"
      [] s \in {"Alelo"} -> "ALELO"
      [] OTHER -> s

\* _normalizar_tipo whose last return hands the text back
TipoDe_repassa(tipo_str) ==
    IF tipo_str \in {"RECEITA", "ENTRADA", "CRÉDITO", "CREDITO"} THEN "Receita"
    ELSE IF tipo_str \in {"DESPESA", "SAÍDA", "SAIDA", "DÉBITO", "DEBITO", "PAGO", "EM ABERTO"}
         THEN "Despesa"
    ELSE tipo_str

\* ArmazenamentoHibrido._normalizar_tipo
TipoDe(tipo_str) ==
    IF tipo_str \in {"RECEITA", "ENTRADA", "CRÉDITO", "CREDITO"} THEN "Receita"
    ELSE IF tipo_str \in {"DESPESA", "SAÍDA", "SAIDA", "DÉBITO", "DEBITO", "PAGO", "EM ABERTO"}
         THEN "Despesa"
    ELSE "Despesa"

_normalizar_tipo(tipo) == TipoDe(upper(tipo))

\* ArmazenamentoHibrido._normalizar_conta
ContaDe(conta_str) ==
    IF conta_str \in {"VALE REFEIÇÃO", "VALE REFEICAO", "VR", "VALE-REFEIÇÃO", "VALE-REFEICAO"}
    THEN "Vale Refeição"
    ELSE IF conta_str \in {"CONTA COMUM", "COMUM", "PRINCIPAL", ""} THEN "Comum"
    ELSE "Comum"

_normalizar_conta(conta) == ContaDe(upper(conta))

\* pd.to_datetime(..., errors='coerce', format='mixed') on one cell
to_datetime(cel) == IF cel.f = "iso" THEN cel.d ELSE NaT

\* x.strftime('%Y-%m-%d') if pd.notna(x) else ''
strftime(x) == IF x # NaT THEN [f |-> "iso", d |-> x] ELSE [f |-> "vazio", d |-> 0]

(***************************************************************************)
(* Tables.  A text row (a line of the CSV file, a row of the worksheet) is *)
(* [Data: [f, d], Descricao: chars, Categoria, Valor: chars, Tipo, Conta]. *)
(* A DataFrame row before normalization has Valor as a Valor cell and NaN  *)
(* where pandas read a missing value.  A canonical row has Data as a day   *)
(* number (or NaT) and Valor in centavos.                                  *)
(***************************************************************************)
Filtrar(s, P(_)) == SelectSeq(s, P)

Mapear(s, F(_)) == [i \in 1..Len(s) |-> F(s[i])]

COLUNAS_SISTEMA == {"Data", "Descricao", "Categoria", "Valor", "Tipo", "Conta"}

\* the texts pandas.read_csv reads as a missing value (its default na_values)
TextoNA(s) == s = <<>> \/ s = <<"N", "A">>
RotuloNA(s) == s \in {"", "NA"}

\* a cell of a column pandas parsed as floats
CelulaFloat(f) == IF f.ok THEN Num(f.v) ELSE ValorNaN

\* a cell gspread numericised: a number when the text is one, else the text
Numericise(texto, f) == IF texto # <<>> /\ f.ok THEN Num(f.v) ELSE Str(texto)

\* every present cell of the Valor column is a number
ColunaNumerica(linhas) ==
    \A i \in 1..Len(linhas) : TextoNA(linhas[i].Valor) \/ ParseFloat(linhas[i].Valor).ok

\* the rows pd.read_csv gives for the lines of a readable file: the Valor
\* column is a float column when every present cell is a number, and a column
\* of texts otherwise
LinhasLidas(linhas, numerica) ==
    LET Celula(l) ==
            [Data |-> l.Data,
             Descricao |-> IF TextoNA(l.Descricao) THEN NaNTexto ELSE l.Descricao,
             Categoria |-> IF RotuloNA(l.Categoria) THEN NaN ELSE l.Categoria,
             Valor |-> IF TextoNA(l.Valor) THEN ValorNaN
                       ELSE IF numerica THEN CelulaFloat(ParseFloat(l.Valor))
                       ELSE Str(l.Valor),
             Tipo |-> IF RotuloNA(l.Tipo) THEN NaN ELSE l.Tipo,
             Conta |-> IF RotuloNA(l.Conta) THEN NaN ELSE l.Conta]
    IN  Mapear(linhas, Celula)

\* pd.read_csv(CAMINHO_CSV) on a readable file, the columns already under their
\* canonical names: [colunas, linhas]
read_csv(arq) ==
    [colunas |-> arq.colunas, linhas |-> LinhasLidas(arq.linhas, ColunaNumerica(arq.linhas))]

\* pd.DataFrame(worksheet.get_all_records()) for rows under the keys of the
\* first row: each cell is numericised on its own, a blank cell stays ''
DataFrame(colunas, linhas) ==
    LET Celula(l) ==
            [Data |-> l.Data,
             Descricao |-> l.Descricao,
             Categoria |-> l.Categoria,
             Valor |-> Numericise(l.Valor, ParseFloat(l.Valor)),
             Tipo |-> l.Tipo,
             Conta |-> l.Conta]
    IN  [colunas |-> colunas, linhas |-> Mapear(linhas, Celula)]

\* ArmazenamentoHibrido._criar_df_vazio
_criar_df_vazio == <<>>

\* ArmazenamentoHibrido._normalizar_dados: df is [colunas, linhas], the result
\* the sequence of canonical rows
_normalizar_dados(df) ==
    LET Completar(r) ==
            [Data |-> IF "Data" \in df.colunas THEN r.Data ELSE [f |-> "vazio", d |-> 0],
             Descricao |-> IF "Descricao" \in df.colunas THEN r.Descricao ELSE <<>>,
             Categoria |-> IF "Categoria" \in df.colunas THEN r.Categoria ELSE "",
             Valor |-> IF "Valor" \in df.colunas THEN r.Valor ELSE Str(<<>>),
             Tipo |-> IF "Tipo" \in df.colunas THEN r.Tipo ELSE "Despesa",
             Conta |-> IF "Conta" \in df.colunas THEN r.Conta ELSE "Comum"]
        TudoNaN(r) == /\ r.Data.f = "vazio" /\ r.Descricao = NaNTexto /\ r.Categoria = NaN
                      /\ r.Valor.t = "nan" /\ r.Tipo = NaN /\ r.Conta = NaN
        Presente(r) == ~TudoNaN(r)
        fillna(x, padrao) == IF x = NaN \/ x = "" THEN padrao ELSE x
        Linha(r) ==
            [Data |-> to_datetime(r.Data),
             Descricao |-> IF r.Descricao = NaNTexto THEN <<>> ELSE r.Descricao,
             Categoria |-> fillna(r.Categoria, "Outros"),
             Valor |-> _limpar_valor(r.Valor),
             Tipo |-> _normalizar_tipo(fillna(r.Tipo, "Despesa")),
             Conta |-> _normalizar_conta(fillna(r.Conta, "Comum"))]
        ComDescricao(r) == strip(r.Descricao) # <<>>
    IN  Filtrar(Mapear(Filtrar(Mapear(df.linhas, Completar), Presente), Linha), ComDescricao)

\* the lines DataFrame.to_csv writes for a canonical table whose Data column
\* _salvar_dados_csv has formatted
to_csv(df) ==
    LET Linha(r) ==
            [Data |-> strftime(r.Data),
             Descricao |-> r.Descricao,
             Categoria |-> r.Categoria,
             Valor |-> ReprFloat(r.Valor),
             Tipo |-> r.Tipo,
             Conta |-> r.Conta]
    IN  Mapear(df, Linha)

\* the row _salvar_dados_gsheets, _salvar_transacao_gsheets and _editar_gsheets send
LinhaPlanilha(r) ==
    [Data |-> strftime(r.Data),
     Descricao |-> r.Descricao,
     Categoria |-> r.Categoria,
     Valor |-> FormatarValorPlanilha(r.Valor),
     Tipo |-> r.Tipo,
     Conta |-> r.Conta]

(***************************************************************************)
(* The two stores.                                                         *)
(*   csv = [st, colunas, linhas]: st is "ausente" (no file), "ilegivel"    *)
(*   (a file pandas cannot parse, such as one of zero bytes) or "ok".      *)
(*   planilha = [cab, linhas]: cab says that row 1 is the canonical header *)
(*   and linhas are the rows under it; without it linhas are all the rows. *)
(* What the environment does to a call is an argument: disco is "ok",      *)
(* "negado" (the write raises and leaves the file as it was) or "truncado" *)
(* (the write raises after the file was opened for writing); rede is "ok"  *)
(* or names the remote call of the handler that raises.                    *)
(***************************************************************************)
ArquivoAusente == [st |-> "ausente", colunas |-> {}, linhas |-> <<>>]
ArquivoIlegivel == [st |-> "ilegivel", colunas |-> {}, linhas |-> <<>>]
Arquivo(linhas) == [st |-> "ok", colunas |-> COLUNAS_SISTEMA, linhas |-> linhas]

LinhaVazia == [Data |-> [f |-> "vazio", d |-> 0], Descricao |-> <<>>, Categoria |-> "",
               Valor |-> <<>>, Tipo |-> "", Conta |-> ""]

\* CAMINHO_CSV.exists()
exists(arq) == arq.st # "ausente"

\* df_export.to_csv(CAMINHO_CSV, index=False): [exc, arq]
escrever_csv(arq, df, disco) ==
    CASE disco = "ok" -> [exc |-> FALSE, arq |-> Arquivo(to_csv(df))]
      [] disco = "negado" -> [exc |-> TRUE, arq |-> arq]
      [] OTHER -> [exc |-> TRUE, arq |-> ArquivoIlegivel]

\* number of rows of the worksheet
NumLinhas(p) == Len(p.linhas) + (IF p.cab THEN 1 ELSE 0)

\* worksheet.append_row(values): after the last row that holds a value
append_row(p, linha) == [p EXCEPT !.linhas = @ \o <<linha>>]

\* worksheet.delete_rows(k), 1 <= k: a row below the last one is a blank grid row
delete_rows(p, k) ==
    IF k > NumLinhas(p) THEN p
    ELSE IF p.cab
         THEN IF k = 1 THEN [p EXCEPT !.cab = FALSE]
              ELSE [p EXCEPT !.linhas = SubSeq(@, 1, k - 2) \o SubSeq(@, k, Len(@))]
         ELSE [p EXCEPT !.linhas = SubSeq(@, 1, k - 1) \o SubSeq(@, k + 1, Len(@))]

\* worksheet.update("A{k}:F{k}", [values]), 1 <= k: the rows between the last
\* row and row k stay blank
update(p, k, linha) ==
    LET todas == IF p.cab THEN <<LinhaVazia>> \o p.linhas ELSE p.linhas
        n == IF k > Len(todas) THEN k ELSE Len(todas)
        novas == [i \in 1..n |-> IF i = k THEN linha
                                 ELSE IF i <= Len(todas) THEN todas[i] ELSE LinhaVazia]
    IN  IF p.cab /\ k > 1 THEN [p EXCEPT !.linhas = Tail(novas)]
        ELSE [cab |-> FALSE, linhas |-> novas]

\* worksheet.clear()
clear(p) == [cab |-> FALSE, linhas |-> <<>>]

\* worksheet.get_all_records(): [exc, df].  Without the canonical header the
\* first row gives the keys: none is a canonical column, and cabecalho says
\* whether the client library accepts them ("aceito") or raises on a repeated
\* key ("repetido").
get_all_records(p, rede, cabecalho) ==
    IF rede # "ok" THEN [exc |-> TRUE, df |-> [colunas |-> {}, linhas |-> <<>>]]
    ELSE IF p.cab THEN [exc |-> FALSE, df |-> DataFrame(COLUNAS_SISTEMA, p.linhas)]
    ELSE IF Len(p.linhas) <= 1 THEN [exc |-> FALSE, df |-> [colunas |-> {}, linhas |-> <<>>]]
    ELSE IF cabecalho = "repetido" THEN [exc |-> TRUE, df |-> [colunas |-> {}, linhas |-> <<>>]]
    ELSE [exc |-> FALSE, df |-> DataFrame({}, Tail(p.linhas))]

(***************************************************************************)
(* ArmazenamentoHibrido.  A handler takes the object and the stores as     *)
(* e = [modo, worksheet, planilha, csv], its arguments, and what the       *)
(* environment does to the call as amb = [conecta, rede, cabecalho,        *)
(* disco]; it gives [e, ok, msg, exc, df, falha]: the state it leaves, the *)
(* pair it returns (or the table, for a load), whether an exception leaves *)
(* the handler, and the call that raised inside it and was caught, which   *)
(* is the str(e) of the message: "" (none), "rede", "disco", "arquivo"     *)
(* (read_csv), "indice" (drop) or "conexao" (no worksheet).                *)
(***************************************************************************)
Retorno(e, ok, msg) ==
    [e |-> e, ok |-> ok, msg |-> msg, exc |-> FALSE, df |-> <<>>, falha |-> ""]
Excecao(e, msg, origem) ==
    [e |-> e, ok |-> FALSE, msg |-> msg, exc |-> FALSE, df |-> <<>>, falha |-> origem]
Tabela(e, df, origem) ==
    [e |-> e, ok |-> TRUE, msg |-> "", exc |-> FALSE, df |-> df, falha |-> origem]

\* ArmazenamentoHibrido._conectar_gsheets: the worksheet, or None on any failure
_conectar_gsheets(amb) == IF amb.conecta THEN "ws" ELSE "None"

\* `if self.worksheet is None: self.worksheet = self._conectar_gsheets()`
ComWorksheet(e, amb) ==
    IF e.worksheet = "None" THEN [e EXCEPT !.worksheet = _conectar_gsheets(amb)] ELSE e

\* _detectar_modo that does not look for the local file
_detectar_modo_sem_arquivo(e, cred, lib, amb) ==
    IF cred /\ lib /\ _conectar_gsheets(amb) # "None"
    THEN [e EXCEPT !.modo = "gsheets", !.worksheet = _conectar_gsheets(amb)]
    ELSE [e EXCEPT !.modo = "memoria", !.worksheet = "None"]

\* ArmazenamentoHibrido.__init__ and _detectar_modo
_detectar_modo(e, cred, lib, amb) ==
    IF cred /\ lib /\ _conectar_gsheets(amb) # "None"
    THEN [e EXCEPT !.modo = "gsheets", !.worksheet = _conectar_gsheets(amb)]
    ELSE IF exists(e.csv) THEN [e EXCEPT !.modo = "csv", !.worksheet = "None"]
    ELSE [e EXCEPT !.modo = "memoria", !.worksheet = "None"]

\* ArmazenamentoHibrido._carregar_csv
_carregar_csv(e) ==
    IF ~exists(e.csv) THEN Tabela(e, _criar_df_vazio, "")
    ELSE IF e.csv.st = "ilegivel" THEN Tabela(e, _criar_df_vazio, "arquivo")   \* read_csv raises
    ELSE IF e.csv.linhas = <<>> THEN Tabela(e, _criar_df_vazio, "")
    ELSE Tabela(e, _normalizar_dados(read_csv(e.csv)), "")

\* a fallback that leaves the storage in memory mode
CarregarLocal_memoria(e, origem) ==
    [_carregar_csv([e EXCEPT !.modo = "memoria"]) EXCEPT !.falha = origem]

\* the fallback of _carregar_gsheets: self.modo = 'csv'; return self._carregar_csv()
CarregarLocal(e, origem) == [_carregar_csv([e EXCEPT !.modo = "csv"]) EXCEPT !.falha = origem]

\* _carregar_gsheets whose except clause returns the empty table
CarregarRegistros_sem_local(e, g) ==
    IF g.exc THEN Tabela(e, _criar_df_vazio, "rede")
    ELSE IF g.df.linhas = <<>> THEN Tabela(e, _criar_df_vazio, "")
    ELSE Tabela(e, _normalizar_dados(g.df), "")

\* _carregar_gsheets once get_all_records has answered g
CarregarRegistros(e, g) ==
    IF g.exc THEN CarregarLocal(e, "rede")
    ELSE IF g.df.linhas = <<>> THEN Tabela(e, _criar_df_vazio, "")
    ELSE Tabela(e, _normalizar_dados(g.df), "")

\* _carregar_gsheets once self.worksheet is set
CarregarDaPlanilha(e, amb) ==
    IF e.worksheet = "None" THEN CarregarLocal(e, "conexao")
    ELSE CarregarRegistros(e, get_all_records(e.planilha, amb.rede, amb.cabecalho))

\* ArmazenamentoHibrido._carregar_gsheets
_carregar_gsheets(e, amb) == CarregarDaPlanilha(ComWorksheet(e, amb), amb)

\* ArmazenamentoHibrido.carregar_dados
carregar_dados(e, amb) ==
    IF e.modo = "gsheets" THEN _carregar_gsheets(e, amb)
    ELSE IF e.modo = "csv" THEN _carregar_csv(e)
    ELSE Tabela(e, _criar_df_vazio, "")

\* _salvar_dados_csv without its try: the exception of to_csv leaves the handler
Escrito_sem_try(e, w) ==
    IF w.exc THEN [Excecao([e EXCEPT !.csv = w.arq], "", "disco") EXCEPT !.exc = TRUE]
    ELSE Retorno([e EXCEPT !.csv = w.arq], TRUE, "Dados salvos com sucesso no arquivo CSV!")

\* _salvar_dados_csv once to_csv has answered w
Escrito(e, w) ==
    IF w.exc THEN Excecao([e EXCEPT !.csv = w.arq], "Erro ao salvar no CSV", "disco")
    ELSE Retorno([e EXCEPT !.csv = w.arq], TRUE, "Dados salvos com sucesso no arquivo CSV!")

\* ArmazenamentoHibrido._salvar_dados_csv
_salvar_dados_csv(e, df, amb) == Escrito(e, escrever_csv(e.csv, df, amb.disco))

\* _salvar_dados_gsheets once self.worksheet is set: clear, append_row of the
\* header and append_rows of the data are three remote calls, each of which
\* may raise
SalvarNaPlanilha(e, df, amb) ==
    IF e.worksheet = "None" THEN _salvar_dados_csv([e EXCEPT !.modo = "csv"], df, amb)
    ELSE IF amb.rede = "erro" THEN Excecao(e, "Erro ao salvar no Google Sheets", "rede")
    ELSE IF amb.rede = "erro_cab"
         THEN Excecao([e EXCEPT !.planilha = clear(@)], "Erro ao salvar no Google Sheets", "rede")
    ELSE IF df # <<>> /\ amb.rede = "erro_linhas"
         THEN Excecao([e EXCEPT !.planilha = [cab |-> TRUE, linhas |-> <<>>]],
                      "Erro ao salvar no Google Sheets", "rede")
    ELSE Retorno([e EXCEPT !.planilha = [cab |-> TRUE, linhas |-> Mapear(df, LinhaPlanilha)]],
                 TRUE, "Dados salvos com sucesso no Google Sheets!")

\* ArmazenamentoHibrido._salvar_dados_gsheets
_salvar_dados_gsheets(e, df, amb) == SalvarNaPlanilha(ComWorksheet(e, amb), df, amb)

\* the memory handlers without `self.modo = 'csv'`
ArquivoCriado_sem_modo(r) ==
    IF r.ok THEN Retorno(r.e, TRUE, "Arquivo CSV criado com sucesso! Dados salvos.")
    ELSE r

\* `if sucesso: self.modo = 'csv'` of _salvar_dados_memoria and _salvar_transacao_memoria
ArquivoCriado(r) ==
    IF r.ok THEN Retorno([r.e EXCEPT !.modo = "csv"], TRUE,
                         "Arquivo CSV criado com sucesso! Dados salvos.")
    ELSE r

\* ArmazenamentoHibrido._salvar_dados_memoria
_salvar_dados_memoria(e, df, amb) == ArquivoCriado(_salvar_dados_csv(e, df, amb))

\* ArmazenamentoHibrido.salvar_dados
salvar_dados(e, df, amb) ==
    IF e.modo = "gsheets" THEN _salvar_dados_gsheets(e, df, amb)
    ELSE IF e.modo = "csv" THEN _salvar_dados_csv(e, df, amb)
    ELSE _salvar_dados_memoria(e, df, amb)

\* the row of a transaction t = [data, descricao, categoria, valor, tipo, conta]
NovaLinha(t) == [Data |-> t.data, Descricao |-> t.descricao, Categoria |-> t.categoria,
                 Valor |-> t.valor, Tipo |-> t.tipo, Conta |-> t.conta]

\* ArmazenamentoHibrido._salvar_transacao_gsheets
_salvar_transacao_gsheets(e, t, amb) ==
    IF e.worksheet = "None" THEN Retorno(e, FALSE, "Erro de conexão com Google Sheets.")
    ELSE IF amb.rede # "ok" THEN Excecao(e, "Erro ao salvar", "rede")
    ELSE Retorno([e EXCEPT !.planilha = append_row(@, LinhaPlanilha(NovaLinha(t)))], TRUE,
                 "Transação salva com sucesso no Google Sheets!")

\* ArmazenamentoHibrido._salvar_transacao_csv
_salvar_transacao_csv(e, t, amb) ==
    IF e.csv.st = "ilegivel" THEN Excecao(e, "Erro ao salvar", "arquivo")   \* read_csv raises
    ELSE IF exists(e.csv)
         THEN _salvar_dados_csv(e, _normalizar_dados(read_csv(e.csv)) \o <<NovaLinha(t)>>, amb)
    ELSE _salvar_dados_csv(e, _criar_df_vazio \o <<NovaLinha(t)>>, amb)

\* ArmazenamentoHibrido._salvar_transacao_memoria
_salvar_transacao_memoria(e, t, amb) == ArquivoCriado(_salvar_transacao_csv(e, t, amb))

\* ArmazenamentoHibrido.salvar_transacao
salvar_transacao(e, t, amb) ==
    IF e.modo = "gsheets" THEN _salvar_transacao_gsheets(e, t, amb)
    ELSE IF e.modo = "csv" THEN _salvar_transacao_csv(e, t, amb)
    ELSE _salvar_transacao_memoria(e, t, amb)

\* ArmazenamentoHibrido._excluir_gsheets: row 0 and above it are no rows of a sheet
_excluir_gsheets(e, indice, amb) ==
    IF e.worksheet = "None" THEN Retorno(e, FALSE, "Erro de conexão.")
    ELSE IF amb.rede # "ok" \/ indice + 2 < 1 THEN Excecao(e, "Erro ao excluir", "rede")
    ELSE Retorno([e EXCEPT !.planilha = delete_rows(@, indice + 2)], TRUE,
                 "Transação excluída com sucesso!")

\* a delete that drops the last row, whatever the index
ExcluirLinha_ultima(e, df, indice, amb) ==
    IF indice \notin 0..(Len(df) - 1) THEN Excecao(e, "Erro ao excluir", "indice")
    ELSE _salvar_dados_csv(e, SubSeq(df, 1, Len(df) - 1), amb)

\* df.drop(indice).reset_index(drop=True) and the save of _excluir_csv: drop
\* raises on a label that is not in the index
ExcluirLinha(e, df, indice, amb) ==
    IF indice \notin 0..(Len(df) - 1) THEN Excecao(e, "Erro ao excluir", "indice")
    ELSE _salvar_dados_csv(e, SubSeq(df, 1, indice) \o SubSeq(df, indice + 2, Len(df)), amb)

\* ArmazenamentoHibrido._excluir_csv: read_csv raises without a readable file
_excluir_csv(e, indice, amb) ==
    IF e.csv.st # "ok" THEN Excecao(e, "Erro ao excluir", "arquivo")
    ELSE ExcluirLinha(e, _normalizar_dados(read_csv(e.csv)), indice, amb)

\* ArmazenamentoHibrido.excluir_transacao
excluir_transacao(e, indice, amb) ==
    IF e.modo = "gsheets" THEN _excluir_gsheets(e, indice, amb)
    ELSE IF e.modo = "csv" THEN _excluir_csv(e, indice, amb)
    ELSE Retorno(e, FALSE, "Não é possível excluir em modo memória.")

\* ArmazenamentoHibrido._editar_gsheets
_editar_gsheets(e, indice, t, amb) ==
    IF e.worksheet = "None" THEN Retorno(e, FALSE, "Erro de conexão.")
    ELSE IF amb.rede # "ok" \/ indice + 2 < 1 THEN Excecao(e, "Erro ao editar", "rede")
    ELSE Retorno([e EXCEPT !.planilha = update(@, indice + 2, LinhaPlanilha(NovaLinha(t)))],
                 TRUE, "Transação atualizada com sucesso!")

\* the six df.at[indice, col] = value of _editar_csv and its save: they set the
\* row of label indice, and add a row of that label when the index has none
EditarLinha(e, df, indice, t, amb) ==
    IF indice \in 0..(Len(df) - 1)
    THEN _salvar_dados_csv(e, [df EXCEPT ![indice + 1] = NovaLinha(t)], amb)
    ELSE _salvar_dados_csv(e, df \o <<NovaLinha(t)>>, amb)

\* ArmazenamentoHibrido._editar_csv: read_csv raises without a readable file
_editar_csv(e, indice, t, amb) ==
    IF e.csv.st # "ok" THEN Excecao(e, "Erro ao editar", "arquivo")
    ELSE EditarLinha(e, _normalizar_dados(read_csv(e.csv)), indice, t, amb)

\* editar_transacao that writes the transaction as a new one in memory mode
editar_transacao_cria(e, indice, t, amb) ==
    IF e.modo = "gsheets" THEN _editar_gsheets(e, indice, t, amb)
    ELSE IF e.modo = "csv" THEN _editar_csv(e, indice, t, amb)
    ELSE _salvar_transacao_memoria(e, t, amb)

\* ArmazenamentoHibrido.editar_transacao
editar_transacao(e, indice, t, amb) ==
    IF e.modo = "gsheets" THEN _editar_gsheets(e, indice, t, amb)
    ELSE IF e.modo = "csv" THEN _editar_csv(e, indice, t, amb)
    ELSE Retorno(e, FALSE, "Não é possível editar em modo memória.")

(***************************************************************************)
(* Pages.  A form is [data, descricao, valor, conta]; valor is [nulo, v],  *)
(* the number_input being None or holding v centavos.  The submit handlers *)
(* of pages/01_Registrar.py, pages/02_Extrato.py and modal_gestao validate *)
(* alike and then call the storage; the result is [r, tela].               *)
(***************************************************************************)
TransacaoDoForm(f) ==
    [data |-> f.data, descricao |-> strip(f.descricao), categoria |-> "Casa",
     valor |-> f.valor.v, tipo |-> "Despesa", conta |-> f.conta]

\* st.error(...) of a validation: the storage is not called
Recusado(e, tela_) == [r |-> Retorno(e, FALSE, ""), tela |-> tela_]

\* `if sucesso: st.success(mensagem) ... else: st.error(mensagem)`
Mostrar(r) == [r |-> r, tela |-> IF r.ok THEN "sucesso" ELSE "erro"]

\* a new-transaction form that does not look at the amount
submit_nova_sem_valor(e, f, amb) ==
    IF strip(f.descricao) = <<>> THEN Recusado(e, "erro_descricao")
    ELSE Mostrar(salvar_transacao(e, TransacaoDoForm(f), amb))

\* the `if submit:` block of a new-transaction form
submit_nova(e, f, amb) ==
    IF strip(f.descricao) = <<>> THEN Recusado(e, "erro_descricao")
    ELSE IF f.valor.nulo \/ f.valor.v <= 0 THEN Recusado(e, "erro_valor")
    ELSE Mostrar(salvar_transacao(e, TransacaoDoForm(f), amb))

\* the `if submit_edit:` block of an edit form
submit_edit(e, indice, f, amb) ==
    IF strip(f.descricao) = <<>> THEN Recusado(e, "erro_descricao")
    ELSE IF f.valor.v <= 0 THEN Recusado(e, "erro_valor")
    ELSE Mostrar(editar_transacao(e, indice, TransacaoDoForm(f), amb))

(***************************************************************************)
(* Inputs of the model.                                                    *)
(***************************************************************************)
Luz == <<"L", "u", "z">>
Pix == <<"P", "i", "x">>

\* transactions the storage is called with
Transacoes ==
    {[data |-> 1, descricao |-> Luz, categoria |-> "Casa", valor |-> 1050,
      tipo |-> "Despesa", conta |-> "Comum"],
     [data |-> 2, descricao |-> Pix, categoria |-> "Salário", valor |-> 123456,
      tipo |-> "Receita", conta |-> "Nubank"]}

\* forms the pages submit
Forms ==
    {[data |-> 1, descricao |-> d, valor |-> [nulo |-> FALSE, v |-> 1050], conta |-> "Comum"] :
        d \in {<<>>, <<" ">>, <<" ">> \o Luz}}
    \cup {[data |-> 1, descricao |-> <<" ">> \o Luz, valor |-> v, conta |-> "Comum"] :
        v \in {[nulo |-> TRUE, v |-> 0], [nulo |-> FALSE, v |-> 0]}}
    \cup {[data |-> 1, descricao |-> <<>>, valor |-> [nulo |-> FALSE, v |-> 0], conta |-> "Comum"]}

\* lines an older version or the user left in the stores
LinhaLegada ==
    [Data |-> [f |-> "iso", d |-> 1], Descricao |-> Luz, Categoria |-> "",
     Valor |-> <<"R", "$", " ", "1", ".", "2", "3", "4", ",", "5", "6">>,
     Tipo |-> "Entrada", Conta |-> "VR"]
LinhaSemDescricao ==
    [Data |-> [f |-> "lixo", d |-> 0], Descricao |-> <<" ">>, Categoria |-> "Casa",
     Valor |-> <<"1", "0", ".", "5">>, Tipo |-> "Pago", Conta |-> "Comum"]

ArquivosIniciais ==
    {ArquivoAusente, ArquivoIlegivel, Arquivo(<<>>), Arquivo(<<LinhaSemDescricao, LinhaLegada>>)}

PlanilhasIniciais ==
    {[cab |-> TRUE, linhas |-> <<>>], [cab |-> TRUE, linhas |-> <<LinhaSemDescricao, LinhaLegada>>]}

\* tables salvar_dados is called with
TabelasEntrada ==
    {<<>>, <<[Data |-> 1, Descricao |-> Luz, Categoria |-> "Casa", Valor |-> 1050,
             Tipo |-> "Despesa", Conta |-> "Comum"]>>}

Indices == (0 - 2)..MaxLinhas

Ambientes ==
    [conecta : BOOLEAN, rede : {"ok", "erro", "erro_cab", "erro_linhas"},
     cabecalho : {"aceito", "repetido"}, disco : {"ok", "negado", "truncado"}]

\* The environments that differ for a call in state e: a handler reads
\* amb.conecta only while it holds no worksheet, amb.rede and amb.cabecalho only
\* in mode gsheets, and amb.disco only when it does not go to the worksheet;
\* redes and cabecalhos are the outcomes the called handler tells apart.
AmbientesDe(e, redes, cabecalhos) ==
    {amb \in Ambientes :
        /\ amb.conecta \/ (e.worksheet = "None" /\ e.modo \in {"None", "gsheets"})
        /\ amb.rede \in (IF e.modo = "gsheets" THEN redes ELSE {"ok"})
        /\ amb.cabecalho \in (IF e.modo = "gsheets" THEN cabecalhos ELSE {"aceito"})
        /\ amb.disco = "ok" \/ e.modo \in {"csv", "memoria"}
                            \/ (e.modo = "gsheets" /\ e.worksheet = "None")}

AmbienteOk == [conecta |-> TRUE, rede |-> "ok", cabecalho |-> "aceito", disco |-> "ok"]

(***************************************************************************)
(* The registry of accounts: the file of CAMINHO_CONTAS is [st, lista],    *)
(* st being "ausente", "ok" or "ilegivel" (not the JSON of a list), and an *)
(* account is [id, nome, tipo_grupo].  A handler gives [c, ok, msg, falha, *)
(* id]: the file it leaves, the pair it returns, the call that raised and  *)
(* was caught, and the id it gave to the account it wrote (0: none).       *)
(***************************************************************************)
\* str.lower() on the names of the model
lower(s) ==
    CASE s \in {"Nubank", "nubank", "NUBANK"} -> "nubank"
      [] s \in {"Alelo", "alelo"} -> "alelo"
      [] s = "Caixa" -> "caixa"
      [] OTHER -> s

TIPOS_GRUPO_CONTA == {"Disponível", "Benefício"}

SemContas == [st |-> "ausente", lista |-> <<>>]

\* carregar_contas: the list of the file, [] without a file or on any exception
carregar_contas(c) == IF c.st = "ok" THEN c.lista ELSE <<>>

\* `with open(CAMINHO_CONTAS, 'w') as f: json.dump(contas, f)` and the return
\* that follows it: open may raise and leave the file alone, the dump may
\* raise and leave the file cut short
GravarContas(c, lista, disco, msg, erro, id) ==
    IF disco = "negado" THEN [c |-> c, ok |-> FALSE, msg |-> erro, falha |-> "disco", id |-> 0]
    ELSE IF disco = "truncado"
         THEN [c |-> [st |-> "ilegivel", lista |-> <<>>], ok |-> FALSE, msg |-> erro,
               falha |-> "disco", id |-> 0]
    ELSE [c |-> [st |-> "ok", lista |-> lista], ok |-> TRUE, msg |-> msg, falha |-> "", id |-> id]

\* the loop comparing the names as they are written
NomeDuplicado_exato(lista, nome) == \E i \in 1..Len(lista) : lista[i].nome = nome

\* the loop `for conta in contas: if conta['nome'].lower() == nome.lower()`
NomeDuplicado(lista, nome) == \E i \in 1..Len(lista) : lower(lista[i].nome) = lower(nome)

\* nova_conta of salvar_conta
NovaConta(lista, nome, tipo_grupo) ==
    [id |-> Len(lista) + 1, nome |-> nome,
     tipo_grupo |-> IF tipo_grupo \in TIPOS_GRUPO_CONTA THEN tipo_grupo ELSE "Disponível"]

\* salvar_conta once carregar_contas has answered lista
CriarConta(c, lista, nome, tipo_grupo, disco) ==
    IF NomeDuplicado(lista, nome)
    THEN [c |-> c, ok |-> FALSE, msg |-> "Já existe uma conta com esse nome.", falha |-> "",
          id |-> 0]
    ELSE GravarContas(c, lista \o <<NovaConta(lista, nome, tipo_grupo)>>, disco,
                      "Conta criada com sucesso!", "Erro ao salvar conta", Len(lista) + 1)

\* salvar_conta
salvar_conta(c, nome, tipo_grupo, disco) ==
    CriarConta(c, carregar_contas(c), nome, tipo_grupo, disco)

\* `contas = [c for c in contas if c['id'] != conta_id]`
SemId(lista, conta_id) == LET Outro(x) == x.id # conta_id IN Filtrar(lista, Outro)

\* excluir_conta
excluir_conta(c, conta_id, disco) ==
    GravarContas(c, SemId(carregar_contas(c), conta_id), disco,
                 "Conta excluída com sucesso!", "Erro ao excluir conta", 0)

\* names, groups and ids the registry is called with
NomesConta == {"Nubank", "nubank", "NUBANK", "Alelo", "alelo", "Caixa"}
GruposConta == {"Disponível", "Benefício", "Cartão"}
IdsConta == 0..MaxContas
Discos == {"ok", "negado", "truncado"}

(***************************************************************************)
(* The state machine.  ultimo is the last call: its operation and          *)
(* arguments, the mode it found (de) and what it returned.                 *)
(***************************************************************************)
Estado == [modo |-> modo, worksheet |-> worksheet, planilha |-> planilha, csv |-> csv]

\* st.cache_data with nothing stored for carregar_dados()
CacheVazio == [cheio |-> FALSE, expirado |-> FALSE, df |-> <<>>]

\* the browser sessions, none with a table loaded or a rewrite in flight
Sessoes == {"a", "b"}
SemSessoes ==
    [s \in Sessoes |-> [pc |-> "pronta", df |-> <<>>, pendente |-> <<>>, fez |-> "nada"]]

SemTransacao == [data |-> 0, descricao |-> <<>>, categoria |-> "", valor |-> 0,
                 tipo |-> "", conta |-> ""]
SemForm == [data |-> 0, descricao |-> <<>>, valor |-> [nulo |-> TRUE, v |-> 0], conta |-> ""]

Chamada(op, de, t, indice, tab, f, r) ==
    [op |-> op, de |-> de, t |-> t, indice |-> indice, tab |-> tab, form |-> f,
     ok |-> r.ok, exc |-> r.exc, df |-> r.df, falha |-> r.falha]

Cabe(e) == Len(e.csv.linhas) <= MaxLinhas /\ Len(e.planilha.linhas) <= MaxLinhas

Passa(r) ==
    /\ Cabe(r.e)
    /\ modo' = r.e.modo
    /\ worksheet' = r.e.worksheet
    /\ planilha' = r.e.planilha
    /\ csv' = r.e.csv
    /\ UNCHANGED <<credenciais, gspread, contas>>

\* a call of the storage that returned r
Efeito(op, t, indice, tab, r) ==
    /\ Passa(r)
    /\ ultimo' = Chamada(op, modo, t, indice, tab, SemForm, r)
    /\ UNCHANGED <<tela, cache, sessoes>>

\* a submit of form f that ended as s = [r, tela]
EfeitoForm(op, indice, f, s) ==
    /\ Passa(s.r)
    /\ tela' = s.tela
    /\ ultimo' = Chamada(op, modo, SemTransacao, indice, <<>>, f, s.r)
    /\ UNCHANGED <<cache, sessoes>>

Init ==
    /\ credenciais \in BOOLEAN
    /\ gspread \in BOOLEAN
    /\ modo = "None"
    /\ worksheet = "None"
    /\ planilha \in (IF credenciais /\ gspread THEN PlanilhasIniciais
                     ELSE {[cab |-> TRUE, linhas |-> <<>>]})
    /\ csv \in ArquivosIniciais
    /\ contas = SemContas
    /\ tela = ""
    /\ cache = CacheVazio
    /\ sessoes = SemSessoes
    /\ ultimo = Chamada("nenhuma", "None", SemTransacao, 0, <<>>, SemForm,
                        Retorno(Estado, TRUE, ""))

\* ArmazenamentoHibrido(): falha tells a connection that was tried and failed
Construido(e, cred, lib, amb) ==
    [Retorno(_detectar_modo(e, cred, lib, amb), TRUE, "")
     EXCEPT !.falha = IF cred /\ lib /\ _conectar_gsheets(amb) = "None" THEN "conexao" ELSE ""]

\* get_armazenamento(): the one ArmazenamentoHibrido() of the process
Construir ==
    /\ modo = "None"
    /\ \E amb \in AmbientesDe(Estado, {"ok"}, {"aceito"}) :
        Efeito("init", SemTransacao, 0, <<>>, Construido(Estado, credenciais, gspread, amb))

Carregar ==
    /\ modo # "None"
    /\ \E amb \in AmbientesDe(Estado, {"ok", "erro"}, {"aceito", "repetido"}) :
        Efeito("load", SemTransacao, 0, <<>>, carregar_dados(Estado, amb))

SalvarDados ==
    /\ modo # "None"
    /\ \E amb \in AmbientesDe(Estado, {"ok", "erro", "erro_cab", "erro_linhas"}, {"aceito"}),
          df \in TabelasEntrada :
        Efeito("save", SemTransacao, 0, df, salvar_dados(Estado, df, amb))

SalvarTransacao ==
    /\ modo # "None"
    /\ \E amb \in AmbientesDe(Estado, {"ok", "erro"}, {"aceito"}), t \in Transacoes :
        Efeito("append", t, 0, <<>>, salvar_transacao(Estado, t, amb))

ExcluirTransacao ==
    /\ modo # "None"
    /\ \E amb \in AmbientesDe(Estado, {"ok", "erro"}, {"aceito"}), i \in Indices :
        Efeito("delete", SemTransacao, i, <<>>, excluir_transacao(Estado, i, amb))

EditarTransacao ==
    /\ modo # "None"
    /\ \E amb \in AmbientesDe(Estado, {"ok", "erro"}, {"aceito"}), i \in Indices, t \in Transacoes :
        Efeito("update", t, i, <<>>, editar_transacao(Estado, i, t, amb))

FormNova ==
    /\ modo # "None"
    /\ \E amb \in AmbientesDe(Estado, {"ok", "erro"}, {"aceito"}), f \in Forms :
        EfeitoForm("form_nova", 0, f, submit_nova(Estado, f, amb))

\* the number_input of an edit form starts from the amount of the row: never None
FormEditar ==
    /\ modo # "None"
    /\ \E amb \in AmbientesDe(Estado, {"ok", "erro"}, {"aceito"}), i \in Indices, f \in Forms :
        /\ ~f.valor.nulo
        /\ EfeitoForm("form_editar", i, f, submit_edit(Estado, i, f, amb))

\* the storage, called as its interface allows
Next ==
    \/ Construir
    \/ Carregar
    \/ SalvarDados
    \/ SalvarTransacao
    \/ ExcluirTransacao
    \/ EditarTransacao

Spec == Init /\ [][Next]_vars

\* the storage, called by the forms of the pages
NextPaginas ==
    \/ Construir
    \/ Carregar
    \/ FormNova
    \/ FormEditar

SpecPaginas == Init /\ [][NextPaginas]_vars

(***************************************************************************)
(* The registry of accounts, called by pages/04_Contas_e_Cartoes.py.       *)
(* There ultimo is [op, nome, conta_id, ok, falha, id, antes, criadas]:    *)
(* the call, what it returned, the file it found, and the ids given to the *)
(* accounts created so far, oldest first.                                  *)
(***************************************************************************)
ChamadaConta(op, nome, conta_id, antes, criadas, r) ==
    [op |-> op, nome |-> nome, conta_id |-> conta_id, ok |-> r.ok, falha |-> r.falha,
     id |-> r.id, antes |-> antes,
     criadas |-> IF r.id # 0 THEN Append(criadas, r.id) ELSE criadas]

EfeitoConta(op, nome, conta_id, r) ==
    /\ Len(r.c.lista) <= MaxContas
    /\ contas' = r.c
    /\ ultimo' = ChamadaConta(op, nome, conta_id, contas, ultimo.criadas, r)
    /\ UNCHANGED <<credenciais, gspread, modo, worksheet, planilha, csv, tela, cache, sessoes>>

InitContas ==
    /\ credenciais = FALSE
    /\ gspread = FALSE
    /\ modo = "None"
    /\ worksheet = "None"
    /\ planilha = [cab |-> TRUE, linhas |-> <<>>]
    /\ csv = ArquivoAusente
    /\ contas \in {SemContas, [st |-> "ilegivel", lista |-> <<>>]}
    /\ tela = ""
    /\ cache = CacheVazio
    /\ sessoes = SemSessoes
    /\ ultimo = ChamadaConta("nenhuma", "", 0, contas, <<>>,
                             [c |-> contas, ok |-> TRUE, msg |-> "", falha |-> "", id |-> 0])

SalvarConta ==
    /\ Len(ultimo.criadas) < MaxCriadas
    /\ \E nome \in NomesConta, tipo_grupo \in GruposConta, disco \in Discos :
        EfeitoConta("criar", nome, 0, salvar_conta(contas, nome, tipo_grupo, disco))

ExcluirConta ==
    \E conta_id \in IdsConta, disco \in Discos :
        EfeitoConta("excluir", "", conta_id, excluir_conta(contas, conta_id, disco))

NextContas ==
    \/ SalvarConta
    \/ ExcluirConta

SpecContas == InitContas /\ [][NextContas]_vars

(***************************************************************************)
(* Properties of the storage (Spec), of the forms (SpecPaginas) and of the *)
(* registry of accounts (SpecContas).                                      *)
(***************************************************************************)
\* the rows of the local file as a load presents them
LinhasLocais(arq) ==
    IF arq.st = "ok" /\ arq.linhas # <<>> THEN _normalizar_dados(read_csv(arq)) ELSE <<>>

Mutacoes == {"append", "update", "delete", "save"}

\* C1: right after construction the mode is gsheets iff the credentials are
\* present, the client library is available and the connection gave a
\* worksheet; otherwise csv iff the local file exists; otherwise memoria.  With
\* the connection failed and a local file present the mode is csv and a load
\* returns the normalized rows of the file.
ModoAposConstruir ==
    ultimo.op = "init" =>
        /\ modo = IF credenciais /\ gspread /\ ultimo.falha # "conexao" THEN "gsheets"
                  ELSE IF exists(csv) THEN "csv" ELSE "memoria"
        /\ (ultimo.falha = "conexao" /\ exists(csv)) =>
               /\ modo = "csv"
               /\ carregar_dados(Estado, AmbienteOk).df = LinhasLocais(csv)

ModoAposConstruir_witness ==
    /\ ultimo.op = "init"
    /\ credenciais /\ gspread /\ ultimo.falha = "conexao"
    /\ csv.linhas # <<>>
    /\ modo = "csv"
    /\ Len(carregar_dados(Estado, AmbienteOk).df) = 1

\* C2: in mode gsheets an append, update or delete that meets a transport error
\* downgrades the storage to csv and is retried there: after it the mode is csv,
\* and an appended transaction is in the local file.
RebaixaParaLocal ==
    (/\ ultimo.op \in {"append", "update", "delete"}
     /\ ultimo.de = "gsheets"
     /\ ultimo.falha = "rede"
     /\ ultimo.indice >= 0) =>
        /\ modo = "csv"
        /\ ultimo.op = "append" => (ultimo.ok /\ csv.linhas # <<>>)

\* C3: a load never raises; in mode gsheets a failed connection or a failed read
\* of the rows switches the mode to csv and returns the normalized rows of the
\* local file; a missing, empty or unreadable local file yields the empty table;
\* mode memoria yields the empty table.
CarregarNuncaFalha ==
    ultimo.op = "load" =>
        /\ ~ultimo.exc
        /\ (ultimo.de = "gsheets" /\ ultimo.falha \in {"conexao", "rede"}) =>
               (modo = "csv" /\ ultimo.df = LinhasLocais(csv))
        /\ ultimo.de = "csv" => (modo = "csv" /\ ultimo.df = LinhasLocais(csv))
        /\ (modo = "csv" /\ (csv.st # "ok" \/ csv.linhas = <<>>)
              /\ (ultimo.de = "csv" \/ ultimo.falha # "")) => ultimo.df = <<>>
        /\ ultimo.de = "memoria" => (ultimo.df = <<>> /\ modo = "memoria")

CarregarNuncaFalha_witness ==
    /\ ultimo.op = "load"
    /\ ultimo.de = "gsheets"
    /\ ultimo.falha = "rede"
    /\ modo = "csv"
    /\ Len(ultimo.df) = 1

\* C4: in mode memoria a successful append or full save creates the local file
\* holding the written data and moves the mode to csv; if the write of the file
\* fails the mode stays memoria and the call returns (False, message).
MemoriaCriaArquivo ==
    (ultimo.de = "memoria" /\ ultimo.op \in {"append", "save"}) =>
        /\ ultimo.ok =>
               /\ modo = "csv"
               /\ csv = Arquivo(to_csv(IF ultimo.op = "append" THEN <<NovaLinha(ultimo.t)>>
                                       ELSE ultimo.tab))
        /\ ultimo.falha # "" => (~ultimo.ok /\ modo = "memoria")
        /\ ultimo.ok \/ ultimo.falha # ""

MemoriaCriaArquivo_witness ==
    /\ ultimo.de = "memoria"
    /\ ultimo.op = "append"
    /\ ultimo.ok
    /\ modo = "csv"
    /\ Len(csv.linhas) = 1

\* C5: in mode memoria an update or a delete returns (False, message) for every
\* index, creates no file and leaves the mode memoria.
MemoriaNaoEdita ==
    [][(modo = "memoria" /\ ultimo'.op \in {"update", "delete"}) =>
          (~ultimo'.ok /\ modo' = "memoria" /\ csv' = csv)]_vars

MemoriaNaoEdita_witness ==
    /\ ultimo.op = "update"
    /\ ultimo.de = "memoria"
    /\ ~ultimo.ok
    /\ modo = "memoria"
    /\ ~exists(csv)

\* C6: every append, update, delete and full save, in every mode and for every
\* failure of a backend, returns a pair (success, message) and never raises;
\* success is False whenever a call to the backend raised.
MutacaoDevolvePar ==
    ultimo.op \in Mutacoes =>
        /\ ~ultimo.exc
        /\ ultimo.ok \in BOOLEAN
        /\ ultimo.falha # "" => ~ultimo.ok

MutacaoDevolvePar_witness ==
    /\ ultimo.op = "delete"
    /\ ultimo.de = "csv"
    /\ ultimo.falha = "disco"
    /\ ~ultimo.ok
    /\ ~ultimo.exc

\* C7: in mode csv a successful append followed by a load returns the rows a
\* load returned before the append, in the same order, followed by one new row
\* that carries the date, description, category, amount, kind and account of
\* the appended transaction unchanged.
AcrescentaUmaLinha ==
    [][(modo = "csv" /\ ultimo'.op = "append" /\ ultimo'.ok) =>
          carregar_dados(Estado', AmbienteOk).df
              = carregar_dados(Estado, AmbienteOk).df \o <<NovaLinha(ultimo'.t)>>]_vars

\* a submitted form whose trimmed description is empty or whose amount is
\* missing or not positive
Invalido(f) == strip(f.descricao) = <<>> \/ f.valor.nulo \/ f.valor.v <= 0

\* C8: a submitted transaction, new or edited, whose trimmed description is
\* empty or whose amount is <= 0 is rejected with a message: no storage
\* operation runs and the stores are unchanged.
FormInvalidoRecusado ==
    [][(ultimo'.op \in {"form_nova", "form_editar"} /\ Invalido(ultimo'.form)) =>
          /\ tela' \in {"erro_descricao", "erro_valor"}
          /\ ~ultimo'.ok /\ ultimo'.falha = ""
          /\ UNCHANGED <<modo, worksheet, planilha, csv>>]_vars

FormInvalidoRecusado_witness ==
    /\ ultimo.op = "form_nova"
    /\ strip(ultimo.form.descricao) # <<>>
    /\ ~ultimo.form.valor.nulo /\ ultimo.form.valor.v = 0
    /\ tela = "erro_valor"
    /\ modo = "csv"
    /\ Len(csv.linhas) = 2

\* C9: after any sequence of account creations and deletions no two persisted
\* accounts have names that are equal ignoring case; a creation whose name
\* equals an existing name ignoring case returns (False, message) and leaves
\* the registry unchanged.
NomesUnicos ==
    /\ \A i, j \in 1..Len(contas.lista) :
          i # j => lower(contas.lista[i].nome) # lower(contas.lista[j].nome)
    /\ (/\ ultimo.op = "criar"
        /\ \E i \in 1..Len(ultimo.antes.lista) :
              lower(ultimo.antes.lista[i].nome) = lower(ultimo.nome)) =>
           (~ultimo.ok /\ contas = ultimo.antes)

NomesUnicos_witness ==
    /\ ultimo.op = "criar"
    /\ ultimo.nome = "NUBANK"
    /\ ~ultimo.ok /\ ultimo.falha = ""
    /\ Len(contas.lista) = 2
    /\ contas.lista[2].nome = "Nubank"

\* C10: after any sequence of account creations and deletions the persisted
\* accounts have pairwise distinct ids, and every id given at a creation is
\* greater than every id given before it.
IdsDistintosCrescentes ==
    /\ \A i, j \in 1..Len(contas.lista) : i # j => contas.lista[i].id # contas.lista[j].id
    /\ \A i, j \in 1..Len(ultimo.criadas) : i < j => ultimo.criadas[i] < ultimo.criadas[j]

(***************************************************************************)
(* Loads over stored content of any shape (SpecCarga): the file and the    *)
(* worksheet hold rows an older version, another program or the user       *)
(* wrote, and the file may lack columns.                                   *)
(***************************************************************************)
LinhaEstranha ==
    [Data |-> [f |-> "iso", d |-> 2], Descricao |-> Pix, Categoria |-> "NA",
     Valor |-> <<"a", "b", "c">>, Tipo |-> "Xyz", Conta |-> "Nubank"]
LinhaQuaseVazia ==
    [Data |-> [f |-> "vazio", d |-> 0], Descricao |-> <<" ">> \o Luz, Categoria |-> " ",
     Valor |-> <<>>, Tipo |-> "", Conta |-> ""]
LinhaNova ==
    [Data |-> [f |-> "iso", d |-> 1], Descricao |-> Luz, Categoria |-> "Casa",
     Valor |-> <<"1", "0", ".", "5">>, Tipo |-> "receita", Conta |-> "vale refeição"]

LinhasBrutas ==
    {LinhaLegada, LinhaSemDescricao, LinhaVazia, LinhaEstranha, LinhaQuaseVazia, LinhaNova}

\* the contents of one or two rows
ConteudosBrutos ==
    {<<a>> : a \in LinhasBrutas} \cup {<<a, b>> : a \in LinhasBrutas, b \in LinhasBrutas}

\* the columns a file comes with
ColunasBrutas ==
    {COLUNAS_SISTEMA, COLUNAS_SISTEMA \ {"Tipo"}, {"Data", "Descricao", "Valor"}}

ArquivosBrutos ==
    {ArquivoAusente} \cup
    {[st |-> "ok", colunas |-> cs, linhas |-> ls] : cs \in ColunasBrutas, ls \in ConteudosBrutos}

PlanilhasBrutas == {[cab |-> TRUE, linhas |-> ls] : ls \in ConteudosBrutos}

\* the worksheet counts only for a storage that has what a connection needs
InitCarga ==
    /\ credenciais \in BOOLEAN
    /\ gspread = credenciais
    /\ modo = "None"
    /\ worksheet = "None"
    /\ IF credenciais
       THEN planilha \in PlanilhasBrutas /\ csv = ArquivoAusente
       ELSE planilha = [cab |-> TRUE, linhas |-> <<>>] /\ csv \in ArquivosBrutos
    /\ contas = SemContas
    /\ tela = ""
    /\ cache = CacheVazio
    /\ sessoes = SemSessoes
    /\ ultimo = Chamada("nenhuma", "None", SemTransacao, 0, <<>>, SemForm,
                        Retorno(Estado, TRUE, ""))

NextCarga ==
    \/ Construir
    \/ Carregar

SpecCarga == InitCarga /\ [][NextCarga]_vars

(***************************************************************************)
(* Properties of the loaded table (SpecCarga).                             *)
(***************************************************************************)
\* a row with the six canonical columns, a description that is not empty
\* once trimmed, a kind that is Receita or Despesa, and a category that is
\* neither empty nor missing
LinhaCanonica(r) ==
    /\ DOMAIN r = COLUNAS_SISTEMA
    /\ strip(r.Descricao) # <<>>
    /\ r.Tipo \in {"Receita", "Despesa"}
    /\ r.Categoria \notin {"", NaN}

\* the store a load in mode de reads
Lido(de) == IF de = "csv" THEN csv ELSE [st |-> "ok", colunas |-> COLUNAS_SISTEMA,
                                          linhas |-> planilha.linhas]

\* one stored row r under columns cs gave the one loaded row c
PadroesAplicados(cs, r, c) ==
    /\ ("Tipo" \notin cs \/ r.Tipo \in {"", "Xyz"}) => c.Tipo = "Despesa"
    /\ ("Categoria" \notin cs \/ r.Categoria = "") => c.Categoria = "Outros"

ComoDataFrame(tab) ==
    LET Celulas(r) ==
            [Data |-> IF r.Data = NaT THEN [f |-> "vazio", d |-> 0]
                      ELSE [f |-> "iso", d |-> r.Data],
             Descricao |-> r.Descricao,
             Categoria |-> r.Categoria,
             Valor |-> Num(r.Valor),
             Tipo |-> r.Tipo,
             Conta |-> r.Conta]
    IN  [colunas |-> COLUNAS_SISTEMA, linhas |-> Mapear(tab, Celulas)]

\* C12: normalization is idempotent: normalizing the table a normalization
\* gave returns the same rows with the same field values.
NormalizarIdempotente ==
    (ultimo.op = "load" /\ ultimo.falha = "") =>
        _normalizar_dados(ComoDataFrame(ultimo.df)) = ultimo.df

NormalizarIdempotente_witness ==
    /\ ultimo.op = "load"
    /\ ultimo.de = "gsheets"
    /\ ultimo.falha = ""
    /\ Len(ultimo.df) = 2
    /\ ultimo.df[1].Valor = 123456 /\ ultimo.df[1].Conta = "Vale Refeição"
    /\ ultimo.df[2].Valor = 0 /\ ultimo.df[2].Data = 2

(***************************************************************************)
(* Amounts (SpecValores): formatar_valor_br and _limpar_valor applied to   *)
(* amounts and to cells.  There ultimo is [op, a, entrada, saida, exc]:    *)
(* the amount formatted (op "formatar"), the cell handed to _limpar_valor, *)
(* what it returned and whether an exception left it.                      *)
(***************************************************************************)
\* formatar_valor_br without the three replacements
formatar_valor_br_sem_troca(valor) ==
    <<"R", "$", " ">> \o Agrupar(TextoInteiro(valor \div 100)) \o DuasCasas(valor % 100)

\* formatar_valor_br
formatar_valor_br(valor) ==
    replace(replace(replace(<<"R", "$", " ">> \o Agrupar(TextoInteiro(valor \div 100))
                                \o DuasCasas(valor % 100),
                            <<",">>, <<"X">>), <<".">>, <<",">>), <<"X">>, <<".">>)

\* amounts in centavos: every amount under 1.20, and amounts around the
\* thousands and the millions separators
Quantias ==
    (0..120) \cup {99999, 100000, 100001, 123456, 99999999, 100000000, 123456789}

\* cells of a Valor column
CelulasValor ==
    {Num(0), Num(1050), Num(123456), ValorNaN} \cup
    {Str(t) : t \in {<<>>, <<" ">>, <<"a", "b", "c">>, <<"R", "$">>,
                     <<"1", ",", "2", ",", "3">>, <<"1", "2", ",", "5">>,
                     <<"1", "0", ".", "5">>, <<"R", "$", " ", "1", "0", ",", "5", "0">>}}

ChamadaValor(op, a, entrada, r) ==
    [exc |-> r.exc, op |-> op, a |-> a, entrada |-> entrada, saida |-> r.v]

EfeitoValor(op, a, entrada) ==
    /\ ultimo' = ChamadaValor(op, a, entrada, Limpar(entrada))
    /\ UNCHANGED <<credenciais, gspread, modo, worksheet, planilha, csv, contas, tela, cache,
                   sessoes>>

InitValores ==
    /\ credenciais = FALSE
    /\ gspread = FALSE
    /\ modo = "None"
    /\ worksheet = "None"
    /\ planilha = [cab |-> TRUE, linhas |-> <<>>]
    /\ csv = ArquivoAusente
    /\ contas = SemContas
    /\ tela = ""
    /\ cache = CacheVazio
    /\ sessoes = SemSessoes
    /\ ultimo = ChamadaValor("nenhuma", 0, ValorNaN, [exc |-> FALSE, v |-> 0])

\* _limpar_valor(formatar_valor_br(a))
FormatarValor == \E a \in Quantias : EfeitoValor("formatar", a, Str(formatar_valor_br(a)))

\* _limpar_valor(cell)
LimparValor == \E x \in CelulasValor : EfeitoValor("limpar", 0, x)

NextValores ==
    \/ FormatarValor
    \/ LimparValor

SpecValores == InitValores /\ [][NextValores]_vars

\* C13: for every amount a >= 0 with at most two decimals, parsing the
\* localized currency rendering of a gives a back, also when the rendering
\* holds thousands separators.
IdaEVoltaValor ==
    ultimo.op = "formatar" => (~ultimo.exc /\ ultimo.saida = ultimo.a)

IdaEVoltaValor_witness ==
    /\ ultimo.op = "formatar"
    /\ ultimo.a = 123456789
    /\ ultimo.entrada.s = <<"R", "$", " ", "1", ".", "2", "3", "4", ".", "5", "6", "7", ",",
                            "8", "9">>
    /\ ultimo.saida = 123456789

\* C14: _limpar_valor never raises: a number is returned as it is, a blank or
\* missing cell gives 0.0, and a text that is no number once the currency
\* symbol and the thousands separators are stripped and the decimal comma is
\* converted gives 0.0.
LimparNuncaFalha ==
    ultimo.op \in {"limpar", "formatar"} =>
        /\ ~ultimo.exc
        /\ ultimo.entrada.t = "num" => ultimo.saida = ultimo.entrada.n
        /\ (ultimo.entrada.t = "nan" \/ ultimo.entrada = Str(<<>>)) => ultimo.saida = 0
        /\ ultimo.entrada \in {Str(<<"a", "b", "c">>), Str(<<" ">>), Str(<<"R", "$">>),
                               Str(<<"1", ",", "2", ",", "3">>)} => ultimo.saida = 0

LimparNuncaFalha_witness ==
    /\ ultimo.op = "limpar"
    /\ ultimo.entrada = Str(<<"a", "b", "c">>)
    /\ ~ultimo.exc
    /\ ultimo.saida = 0

\* amounts the stored rows of SpecCarga hold, in centavos
ValoresGravados == {1050, 123456}

\* C15: on read an amount is parsed to the same magnitude whether it is stored
\* as a raw decimal text (the text to_csv writes for it) or as a localized
\* currency text.
MesmaMagnitude ==
    (/\ ultimo.op = "load"
     /\ ultimo.falha = ""
     /\ "Valor" \in Lido(ultimo.de).colunas
     /\ Len(ultimo.df) = Len(Lido(ultimo.de).linhas)) =>
        \A i \in 1..Len(ultimo.df), v \in ValoresGravados :
            Lido(ultimo.de).linhas[i].Valor \in {ReprFloat(v), formatar_valor_br(v)} =>
                ultimo.df[i].Valor = v

(***************************************************************************)
(* Account groups and balances (SpecSaldos).  A registry entry carries the *)
(* saldo_inicial salvar_conta stored with it.                              *)
(***************************************************************************)
\* MAPEAMENTO_CONTA_LEGADO
MAPEAMENTO_CONTA_LEGADO ==
    ("Comum" :> "Disponível") @@ ("Vale Refeição" :> "Benefício") @@ ("VR" :> "Benefício")

\* `for conta in contas: if conta['nome'] == nome_conta: return conta.get('tipo_grupo', ...)`
GrupoCadastrado(lista, nome_conta) ==
    IF \E i \in 1..Len(lista) : lista[i].nome = nome_conta
    THEN lista[CHOOSE i \in 1..Len(lista) :
                   /\ lista[i].nome = nome_conta
                   /\ \A j \in 1..(i - 1) : lista[j].nome # nome_conta].tipo_grupo
    ELSE "Disponível"

\* obter_tipo_grupo_conta, c the registry file
obter_tipo_grupo_conta(nome_conta, c) ==
    IF nome_conta \in DOMAIN MAPEAMENTO_CONTA_LEGADO THEN MAPEAMENTO_CONTA_LEGADO[nome_conta]
    ELSE GrupoCadastrado(carregar_contas(c), nome_conta)

\* the names of the registered accounts whose group is (igual) or is not tipo
NomesDoGrupo(lista, tipo, igual) ==
    {lista[i].nome : i \in {j \in 1..Len(lista) : (lista[j].tipo_grupo = tipo) = igual}}

\* obter_todas_contas_para_filtro: the lists are used with isin only
obter_todas_contas_para_filtro(c) ==
    [disponiveis |-> NomesDoGrupo(carregar_contas(c), "Disponível", TRUE) \cup {"Comum"},
     beneficios |-> NomesDoGrupo(carregar_contas(c), "Disponível", FALSE)
                        \cup {"Vale Refeição"}]

\* df[col].sum() of the column Valor
RECURSIVE SomaValor(_)
SomaValor(df) == IF df = <<>> THEN 0 ELSE df[1].Valor + SomaValor(Tail(df))

\* `lista_contas = info_contas['disponiveis'] if tipo_grupo == 'Disponível' else ...`
ListaContas(info_contas, tipo_grupo) ==
    IF tipo_grupo = "Disponível" THEN info_contas.disponiveis ELSE info_contas.beneficios

\* df_anterior filtering on the day itself as well
Anteriores_ate_o_dia(df, lista_contas, data_inicio_mes) ==
    LET Antes(r) == r.Conta \in lista_contas /\ r.Data # NaT /\ r.Data <= data_inicio_mes
    IN  Filtrar(df, Antes)

\* df_anterior: `df[(df['Conta'].isin(lista_contas)) & (df['Data'].dt.date < data_inicio_mes)]`;
\* NaT compares False
Anteriores(df, lista_contas, data_inicio_mes) ==
    LET Antes(r) == r.Conta \in lista_contas /\ r.Data # NaT /\ r.Data < data_inicio_mes
    IN  Filtrar(df, Antes)

\* `df_anterior[df_anterior['Tipo'] == tipo]`
DoTipo(df, tipo) == LET Igual(r) == r.Tipo = tipo IN Filtrar(df, Igual)

\* receitas - despesas of df_anterior
SaldoDe(df_anterior) ==
    IF df_anterior = <<>> THEN 0
    ELSE SomaValor(DoTipo(df_anterior, "Receita")) - SomaValor(DoTipo(df_anterior, "Despesa"))

\* calcular_saldo_anterior_dinamico, c the registry file
calcular_saldo_anterior_dinamico(df, tipo_grupo, data_inicio_mes, c) ==
    IF df = <<>> THEN 0
    ELSE SaldoDe(Anteriores(df, ListaContas(obter_todas_contas_para_filtro(c), tipo_grupo),
                            data_inicio_mes))

(***************************************************************************)
(* gerar_fluxo_caixa_diario of pages/03_Previsibilidade.py.  A day is its  *)
(* number; a merged column holds Num(v) or ValorNaN until fillna.          *)
(***************************************************************************)
\* `df = df.dropna(subset=['Data'])`
ComData(df) == LET Datada(r) == r.Data # NaT IN Filtrar(df, Datada)

\* df_periodo
NoPeriodo(df, data_inicio, data_fim) ==
    LET Dentro(r) == r.Data >= data_inicio /\ r.Data <= data_fim IN Filtrar(df, Dentro)

\* pd.date_range(start=data_inicio, end=data_fim, freq='D') as df_calendario
RECURSIVE date_range(_, _)
date_range(start, end) ==
    IF start > end THEN <<>>
    ELSE <<[Data |-> start, Data_date |-> start]>> \o date_range(start + 1, end)

\* the rows of a kind, whatever their account
Movimentos_sem_conta(df_periodo, tipo, lista_contas) ==
    LET Casa(r) == r.Tipo = tipo IN Filtrar(df_periodo, Casa)

\* `df_periodo[(df_periodo['Tipo'] == tipo) & (df_periodo['Conta'].isin(lista_contas))]`
Movimentos(df_periodo, tipo, lista_contas) ==
    LET Casa(r) == r.Tipo = tipo /\ r.Conta \in lista_contas IN Filtrar(df_periodo, Casa)

\* the keys of a groupby, ascending
RECURSIVE Crescente(_)
Crescente(dias) ==
    IF dias = {} THEN <<>>
    ELSE <<CHOOSE d \in dias : \A x \in dias : d <= x>>
         \o Crescente(dias \ {CHOOSE d \in dias : \A x \in dias : d <= x})

\* the sum of the rows of one day
SomaDoDia(df, dia) == LET NoDia(r) == r.Data = dia IN SomaValor(Filtrar(df, NoDia))

\* the rows themselves, one for each transaction
groupby_sem_soma(df) == LET Uma(r) == [Data |-> r.Data, v |-> r.Valor] IN Mapear(df, Uma)

\* `df.groupby(df['Data'].dt.date)['Valor'].sum().reset_index()`
groupby(df) ==
    LET Dia(d) == [Data |-> d, v |-> SomaDoDia(df, d)]
    IN  Mapear(Crescente({df[i].Data : i \in 1..Len(df)}), Dia)

\* the rows a left row gives in a left merge: one for each match, one of NaN for none
Casados(linha, df_temp, col) ==
    LET Casa(x) == x.Data = linha.Data_date
        Junta(x) == linha @@ (col :> Num(x.v))
    IN  IF Filtrar(df_temp, Casa) = <<>> THEN <<linha @@ (col :> ValorNaN)>>
        ELSE Mapear(Filtrar(df_temp, Casa), Junta)

\* `df_resultado.merge(df_temp, left_on='Data_date', right_on='Data', how='left')`
RECURSIVE merge(_, _, _)
merge(df_resultado, df_temp, col) ==
    IF df_resultado = <<>> THEN <<>>
    ELSE Casados(df_resultado[1], df_temp, col) \o merge(Tail(df_resultado), df_temp, col)

\* one turn of `for df_temp, col in [...]`: the merge, or `df_resultado[col] = 0.0`
ComColuna(df_resultado, df_temp, col) ==
    LET Zero(r) == r @@ (col :> Num(0))
    IN  IF df_temp # <<>> THEN merge(df_resultado, df_temp, col) ELSE Mapear(df_resultado, Zero)

\* the four turns of the loop over df_periodo, then `df_resultado.fillna(0)`
Mesclado(df_periodo, info_contas, df_calendario) ==
    LET fillna(r) == [Data |-> r.Data,
                      Entradas_Disponivel |-> FloatOuZero([ok |-> r.Entradas_Disponivel.t = "num",
                                                           v |-> r.Entradas_Disponivel.n]),
                      Entradas_Beneficio |-> FloatOuZero([ok |-> r.Entradas_Beneficio.t = "num",
                                                          v |-> r.Entradas_Beneficio.n]),
                      Saidas_Disponivel |-> FloatOuZero([ok |-> r.Saidas_Disponivel.t = "num",
                                                         v |-> r.Saidas_Disponivel.n]),
                      Saidas_Beneficio |-> FloatOuZero([ok |-> r.Saidas_Beneficio.t = "num",
                                                        v |-> r.Saidas_Beneficio.n])]
    IN  Mapear(
          ComColuna(
            ComColuna(
              ComColuna(
                ComColuna(df_calendario,
                          groupby(Movimentos(df_periodo, "Receita", info_contas.disponiveis)),
                          "Entradas_Disponivel"),
                groupby(Movimentos(df_periodo, "Receita", info_contas.beneficios)),
                "Entradas_Beneficio"),
              groupby(Movimentos(df_periodo, "Despesa", info_contas.disponiveis)),
              "Saidas_Disponivel"),
            groupby(Movimentos(df_periodo, "Despesa", info_contas.beneficios)),
            "Saidas_Beneficio"),
          fillna)

\* `df[col].cumsum()` at row i, col the difference of two columns
RECURSIVE cumsum(_, _, _, _)
cumsum(df, entradas, saidas, i) ==
    IF i = 0 THEN 0 ELSE cumsum(df, entradas, saidas, i - 1) + df[i][entradas] - df[i][saidas]

\* the totals of the day and the running totals of the two groups
ComSaldos(df, saldo_ant_disponivel, saldo_ant_beneficio) ==
    [i \in 1..Len(df) |->
        [Data |-> df[i].Data,
         Entradas |-> df[i].Entradas_Disponivel + df[i].Entradas_Beneficio,
         Saidas |-> df[i].Saidas_Disponivel + df[i].Saidas_Beneficio,
         Saldo_Dia |-> (df[i].Entradas_Disponivel + df[i].Entradas_Beneficio)
                        - (df[i].Saidas_Disponivel + df[i].Saidas_Beneficio),
         Saldo_Dia_Disponivel |-> df[i].Entradas_Disponivel - df[i].Saidas_Disponivel,
         Saldo_Dia_Beneficio |-> df[i].Entradas_Beneficio - df[i].Saidas_Beneficio,
         Saldo_Acum_Comum |-> saldo_ant_disponivel
                                + cumsum(df, "Entradas_Disponivel", "Saidas_Disponivel", i),
         Saldo_Acum_VR |-> saldo_ant_beneficio
                             + cumsum(df, "Entradas_Beneficio", "Saidas_Beneficio", i)]]

\* gerar_fluxo_caixa_diario once NaT rows are dropped
FluxoDe(df, data_inicio, data_fim, c) ==
    [df |-> ComSaldos(Mesclado(NoPeriodo(df, data_inicio, data_fim),
                               obter_todas_contas_para_filtro(c),
                               date_range(data_inicio, data_fim)),
                      calcular_saldo_anterior_dinamico(df, "Disponível", data_inicio, c),
                      calcular_saldo_anterior_dinamico(df, "Benefício", data_inicio, c)),
     saldo_ant_disponivel |-> calcular_saldo_anterior_dinamico(df, "Disponível", data_inicio, c),
     saldo_ant_beneficio |-> calcular_saldo_anterior_dinamico(df, "Benefício", data_inicio, c)]

\* gerar_fluxo_caixa_diario, c the registry file
gerar_fluxo_caixa_diario(df, data_inicio, data_fim, c) ==
    FluxoDe(ComData(df), data_inicio, data_fim, c)

(***************************************************************************)
(* SpecSaldos: a local storage, a registry of accounts, transactions       *)
(* registered with the name of an account, and the balances computed from  *)
(* the table carregar_dados gives.                                         *)
(***************************************************************************)
\* registry files salvar_conta left: [id, nome, tipo_grupo, saldo_inicial], centavos
Conta(id, nome, tipo_grupo, saldo_inicial) ==
    [id |-> id, nome |-> nome, tipo_grupo |-> tipo_grupo, saldo_inicial |-> saldo_inicial]

RegistrosSaldo ==
    {SemContas,
     [st |-> "ok", lista |-> <<Conta(1, "Nubank", "Disponível", 50000)>>],
     [st |-> "ok", lista |-> <<Conta(1, "Alelo", "Benefício", 0)>>],
     [st |-> "ok", lista |-> <<Conta(1, "Comum", "Benefício", 0)>>],
     [st |-> "ok", lista |-> <<Conta(1, "Nubank", "Disponível", 0),
                               Conta(2, "Alelo", "Benefício", 20000)>>]}

\* transactions the page registers, the account one of the select box or a legacy one
TransacoesSaldo ==
    {[data |-> 1, descricao |-> Pix, categoria |-> "Salário", valor |-> 100000,
      tipo |-> "Receita", conta |-> "Comum"],
     [data |-> 2, descricao |-> Luz, categoria |-> "Casa", valor |-> 30000,
      tipo |-> "Despesa", conta |-> "Comum"],
     [data |-> 2, descricao |-> Luz, categoria |-> "Casa", valor |-> 5000,
      tipo |-> "Despesa", conta |-> "Vale Refeição"],
     [data |-> 1, descricao |-> Pix, categoria |-> "Salário", valor |-> 20000,
      tipo |-> "Receita", conta |-> "Alelo"],
     [data |-> 2, descricao |-> Luz, categoria |-> "Casa", valor |-> 1000,
      tipo |-> "Despesa", conta |-> "Caixa"],
     [data |-> 2, descricao |-> Pix, categoria |-> "Transferência", valor |-> 7000,
      tipo |-> "Despesa", conta |-> "Comum"],
     [data |-> 2, descricao |-> Pix, categoria |-> "Transferência", valor |-> 7000,
      tipo |-> "Receita", conta |-> "Vale Refeição"]}

\* the days the balances are asked for
DiasSaldo == 1..3

ChamadaSaldo(op, de, r, tipo_grupo, data_inicio, data_fim, saldo, fluxo) ==
    [op |-> op, de |-> de, df |-> r.df, tipo_grupo |-> tipo_grupo, data_inicio |-> data_inicio,
     data_fim |-> data_fim, saldo |-> saldo, fluxo |-> fluxo]

InitSaldos ==
    /\ credenciais = FALSE
    /\ gspread = FALSE
    /\ modo = "None"
    /\ worksheet = "None"
    /\ planilha = [cab |-> TRUE, linhas |-> <<>>]
    /\ csv \in {ArquivoAusente, Arquivo(<<>>)}
    /\ contas \in RegistrosSaldo
    /\ tela = ""
    /\ cache = CacheVazio
    /\ sessoes = SemSessoes
    /\ ultimo = Chamada("nenhuma", "None", SemTransacao, 0, <<>>, SemForm,
                        Retorno(Estado, TRUE, ""))

\* the page Registrar saving a transaction of an account
RegistrarComConta ==
    /\ modo # "None"
    /\ \E t \in TransacoesSaldo :
        Efeito("append", t, 0, <<>>, salvar_transacao(Estado, t, AmbienteOk))

\* r = carregar_dados(), then calcular_saldo_anterior_dinamico(df, tipo_grupo, data_inicio)
SaldoDaCarga(r, tipo_grupo, data_inicio) ==
    /\ Passa(r)
    /\ ultimo' = ChamadaSaldo("saldo", csv, r, tipo_grupo, data_inicio, data_inicio,
                              calcular_saldo_anterior_dinamico(r.df, tipo_grupo, data_inicio,
                                                               contas),
                              <<>>)
    /\ UNCHANGED <<tela, cache, sessoes>>

ConsultarSaldo ==
    /\ modo # "None"
    /\ \E tipo_grupo \in TIPOS_GRUPO_CONTA, data_inicio \in DiasSaldo :
        SaldoDaCarga(carregar_dados(Estado, AmbienteOk), tipo_grupo, data_inicio)

\* r = carregar_dados(), then gerar_fluxo_caixa_diario(df, data_inicio, data_fim)
FluxoDaCarga(r, g, data_inicio, data_fim) ==
    /\ Passa(r)
    /\ ultimo' = ChamadaSaldo("fluxo", csv, r, "", data_inicio, data_fim,
                              g.saldo_ant_disponivel + g.saldo_ant_beneficio, g.df)
    /\ UNCHANGED <<tela, cache, sessoes>>

GerarFluxo ==
    /\ modo # "None"
    /\ \E data_inicio \in DiasSaldo, data_fim \in DiasSaldo :
        /\ data_inicio <= data_fim
        /\ FluxoDaCarga(carregar_dados(Estado, AmbienteOk),
                        gerar_fluxo_caixa_diario(carregar_dados(Estado, AmbienteOk).df,
                                                 data_inicio, data_fim, contas),
                        data_inicio, data_fim)

\* the sum of the saldo_inicial of the registered accounts of the groups
RECURSIVE SaldosIniciais(_, _)
SaldosIniciais(lista, grupos) ==
    IF lista = <<>> THEN 0
    ELSE (IF lista[1].tipo_grupo \in grupos THEN lista[1].saldo_inicial ELSE 0)
         + SaldosIniciais(Tail(lista), grupos)

\* calcular_saldo_anterior_com_inicial, which Dashboard.py imports from utils:
\* the initial balances of the accounts of the group on top of the
\* transactions before the day
calcular_saldo_anterior_com_inicial(df, tipo_grupo, data_inicio, c) ==
    SaldosIniciais(carregar_contas(c), {tipo_grupo})
        + calcular_saldo_anterior_dinamico(df, tipo_grupo, data_inicio, c)

\* `mask_mes = (df_temp['Data'] >= data_inicio) & (df_temp['Data'] < data_fim)`
DoMes(df, data_inicio, data_fim) ==
    LET NoMes(r) == r.Data # NaT /\ r.Data >= data_inicio /\ r.Data < data_fim
    IN  Filtrar(df, NoMes)

\* the sum of the rows of a kind, those of Transferência among them
SomaDoPeriodo_com_transferencias(df_periodo, tipo, transferencia) ==
    LET Casa(r) == r.Tipo = tipo /\ (transferencia => r.Categoria = "Transferência")
    IN  SomaValor(Filtrar(df_periodo, Casa))

\* `df_periodo[(df_periodo['Tipo'] == tipo) & (df_periodo['Categoria'] (!= | ==)
\* 'Transferência')]['Valor'].sum()`
SomaDoPeriodo(df_periodo, tipo, transferencia) ==
    LET Casa(r) == r.Tipo = tipo /\ ((r.Categoria = "Transferência") = transferencia)
    IN  SomaValor(Filtrar(df_periodo, Casa))

\* the figures of the top of the Dashboard from df_periodo and saldo_inicial_total
Resumo(df_periodo, saldo_inicial_total) ==
    [saldo_inicial_total |-> saldo_inicial_total,
     receitas_periodo |-> SomaDoPeriodo(df_periodo, "Receita", FALSE),
     despesas_periodo |-> SomaDoPeriodo(df_periodo, "Despesa", FALSE),
     balanco_transferencias |-> SomaDoPeriodo(df_periodo, "Receita", TRUE)
                                    - SomaDoPeriodo(df_periodo, "Despesa", TRUE),
     saldo_atual_total |-> saldo_inicial_total
                             + SomaDoPeriodo(df_periodo, "Receita", FALSE)
                             - SomaDoPeriodo(df_periodo, "Despesa", FALSE)
                             + (SomaDoPeriodo(df_periodo, "Receita", TRUE)
                                  - SomaDoPeriodo(df_periodo, "Despesa", TRUE))]

\* main of Dashboard.py from df = carregar_dados() to saldo_atual_total
ResumoDoPeriodo(df, data_inicio, data_fim, c) ==
    Resumo(DoMes(df, data_inicio, data_fim),
           calcular_saldo_anterior_com_inicial(df, "Disponível", data_inicio, c)
             + calcular_saldo_anterior_com_inicial(df, "Benefício", data_inicio, c))

ResumoDaCarga(r, data_inicio, data_fim) ==
    /\ Passa(r)
    /\ ultimo' = [op |-> "resumo", df |-> r.df, data_inicio |-> data_inicio,
                  data_fim |-> data_fim,
                  resumo |-> ResumoDoPeriodo(r.df, data_inicio, data_fim, contas)]
    /\ UNCHANGED <<tela, cache, sessoes>>

\* the Dashboard of a month: data_fim is the first day after it
ResumirPeriodo ==
    /\ modo # "None"
    /\ \E data_inicio \in DiasSaldo, data_fim \in DiasSaldo :
        /\ data_inicio < data_fim
        /\ ResumoDaCarga(carregar_dados(Estado, AmbienteOk), data_inicio, data_fim)

NextSaldos ==
    \/ Construir
    \/ RegistrarComConta
    \/ ConsultarSaldo
    \/ GerarFluxo
    \/ ResumirPeriodo

SpecSaldos == InitSaldos /\ [][NextSaldos]_vars

\* +Valor of a Receita, -Valor of a Despesa
Contribuicao(r) ==
    IF r.Tipo = "Receita" THEN r.Valor ELSE IF r.Tipo = "Despesa" THEN 0 - r.Valor ELSE 0

\* the table without its row i
SemLinha(df, i) == [j \in 1..(Len(df) - 1) |-> IF j < i THEN df[j] ELSE df[j + 1]]

\* row i of the loaded table is counted in the balance of tipo_grupo asked for day d
ContadaEm(df, i, tipo_grupo, d) ==
    calcular_saldo_anterior_dinamico(df, tipo_grupo, d, contas)
        = calcular_saldo_anterior_dinamico(SemLinha(df, i), tipo_grupo, d, contas)
            + Contribuicao(df[i])

\* C16: a transaction stored with the name of a registered account of group
\* Benefício is counted in the balance of Benefício after it is loaded back,
\* and one whose account is neither legacy nor registered is counted in the
\* balance of Disponível.
ContaNoGrupoResolvido ==
    (/\ ultimo.op = "saldo"
     /\ Len(ultimo.df) = Len(ultimo.de.linhas)) =>
        \A i \in 1..Len(ultimo.df) :
            (/\ ultimo.df[i].Data # NaT
             /\ ultimo.df[i].Data < ultimo.data_inicio
             /\ ultimo.tipo_grupo
                    = obter_tipo_grupo_conta(ultimo.de.linhas[i].Conta, contas)) =>
                ContadaEm(ultimo.df, i, ultimo.tipo_grupo, ultimo.data_inicio)

\* the names that stand for tipo_grupo: the registered accounts of the group
\* and the legacy name of the group
NomesQueResolvem(tipo_grupo) ==
    {n \in DOMAIN MAPEAMENTO_CONTA_LEGADO \ {"VR"} : MAPEAMENTO_CONTA_LEGADO[n] = tipo_grupo}
    \cup {carregar_contas(contas)[i].nome : i \in
            {j \in 1..Len(carregar_contas(contas)) :
                carregar_contas(contas)[j].tipo_grupo = tipo_grupo}}

\* the signed amounts of the rows of df of the group dated strictly before dia
RECURSIVE SomaAssinada(_, _, _)
SomaAssinada(df, nomes, dia) ==
    IF df = <<>> THEN 0
    ELSE (IF df[1].Conta \in nomes /\ df[1].Data # NaT /\ df[1].Data < dia
          THEN Contribuicao(df[1]) ELSE 0)
         + SomaAssinada(Tail(df), nomes, dia)

SaldoIncluiSaldosIniciais ==
    /\ ultimo.op = "saldo" =>
        ultimo.saldo = SomaAssinada(ultimo.df, NomesQueResolvem(ultimo.tipo_grupo),
                                    ultimo.data_inicio)
                        + SaldosIniciais(carregar_contas(contas), {ultimo.tipo_grupo})
    /\ (ultimo.op = "fluxo" /\ ultimo.df = <<>>) =>
        \A i \in 1..Len(ultimo.fluxo) :
            /\ ultimo.fluxo[i].Entradas = 0
            /\ ultimo.fluxo[i].Saidas = 0
            /\ ultimo.fluxo[i].Saldo_Acum_Comum
                   = SaldosIniciais(carregar_contas(contas), {"Disponível"})

\* C19: the balances before day D of the two groups add up to the signed
\* amounts of all the transactions dated before D plus all the initial
\* balances: each dated transaction is counted in exactly one group.
ConservacaoDoSaldo ==
    ultimo.op = "saldo" =>
        calcular_saldo_anterior_dinamico(ultimo.df, "Disponível", ultimo.data_inicio, contas)
          + calcular_saldo_anterior_dinamico(ultimo.df, "Benefício", ultimo.data_inicio, contas)
        = SomaAssinada(ultimo.df, {ultimo.df[i].Conta : i \in 1..Len(ultimo.df)},
                       ultimo.data_inicio)
          + SaldosIniciais(carregar_contas(contas), TIPOS_GRUPO_CONTA)

\* C20: for data_inicio <= data_fim the daily cash flow has exactly
\* (data_fim - data_inicio) + 1 rows, one for each day of the period in
\* ascending order, with no gap and no day twice, whatever the table holds.
UmaLinhaPorDia ==
    (ultimo.op = "fluxo" /\ ultimo.data_inicio <= ultimo.data_fim) =>
        /\ Len(ultimo.fluxo) = (ultimo.data_fim - ultimo.data_inicio) + 1
        /\ \A i \in 1..Len(ultimo.fluxo) : ultimo.fluxo[i].Data = ultimo.data_inicio + (i - 1)

UmaLinhaPorDia_witness ==
    /\ ultimo.op = "fluxo"
    /\ ultimo.data_inicio = 1
    /\ ultimo.data_fim = 3
    /\ Len(ultimo.df) = 2
    /\ ultimo.df[1].Data = 2 /\ ultimo.df[2].Data = 2
    /\ ultimo.df[1].Tipo = "Despesa" /\ ultimo.df[2].Tipo = "Despesa"
    /\ ultimo.df[1].Conta = "Comum" /\ ultimo.df[2].Conta = "Comum"
    /\ Len(ultimo.fluxo) = 3
    /\ ultimo.fluxo[2].Saidas = ultimo.df[1].Valor + ultimo.df[2].Valor

\* the signed amounts of the rows of the group dated from day de to day ate
MovimentoDosDias(df, nomes, de, ate) ==
    SomaAssinada(df, nomes, ate + 1) - SomaAssinada(df, nomes, de)

\* C21: in the daily cash flow the cumulative balance of a group on the i-th
\* day is its balance before the first day plus its movements (Receita minus
\* Despesa of the rows dated on the day) of days 1..i, and the balance of a
\* day is the inflow minus the outflow of the day over both groups.
CascataDoSaldo ==
    ultimo.op = "fluxo" =>
        \A i \in 1..Len(ultimo.fluxo) :
            /\ ultimo.fluxo[i].Saldo_Acum_Comum
                 = calcular_saldo_anterior_dinamico(ultimo.df, "Disponível",
                                                    ultimo.data_inicio, contas)
                   + MovimentoDosDias(ultimo.df, NomesQueResolvem("Disponível"),
                                      ultimo.data_inicio, ultimo.data_inicio + (i - 1))
            /\ ultimo.fluxo[i].Saldo_Acum_VR
                 = calcular_saldo_anterior_dinamico(ultimo.df, "Benefício",
                                                    ultimo.data_inicio, contas)
                   + MovimentoDosDias(ultimo.df, NomesQueResolvem("Benefício"),
                                      ultimo.data_inicio, ultimo.data_inicio + (i - 1))
            /\ ultimo.fluxo[i].Saldo_Dia = ultimo.fluxo[i].Entradas - ultimo.fluxo[i].Saidas
            /\ ultimo.fluxo[i].Saldo_Dia
                 = MovimentoDosDias(ultimo.df, NomesQueResolvem("Disponível"),
                                    ultimo.data_inicio + (i - 1), ultimo.data_inicio + (i - 1))
                   + MovimentoDosDias(ultimo.df, NomesQueResolvem("Benefício"),
                                      ultimo.data_inicio + (i - 1), ultimo.data_inicio + (i - 1))

CascataDoSaldo_witness ==
    /\ ultimo.op = "fluxo"
    /\ ultimo.data_inicio = 2
    /\ ultimo.data_fim = 3
    /\ Len(ultimo.df) = 2
    /\ ultimo.df[1].Data = 1 /\ ultimo.df[1].Tipo = "Receita" /\ ultimo.df[1].Valor = 100000
    /\ ultimo.df[2].Data = 2 /\ ultimo.df[2].Tipo = "Despesa" /\ ultimo.df[2].Valor = 5000
    /\ ultimo.df[2].Conta = "Vale Refeição"
    /\ Len(ultimo.fluxo) = 2
    /\ ultimo.fluxo[1].Saldo_Acum_Comum = 100000
    /\ ultimo.fluxo[1].Saldo_Acum_VR = 0 - 5000
    /\ ultimo.fluxo[2].Saldo_Acum_VR = 0 - 5000
    /\ ultimo.fluxo[1].Saldo_Dia = 0 - 5000

\* C22: in the summary of a period the totals of Receita and Despesa leave
\* out the rows of category Transferência, the balance of transfers is their
\* inflow minus their outflow, and the current balance is the balance before
\* the period + Receita - Despesa + the balance of transfers, which is the
\* balance before the period plus the signed amounts of all its rows.
ResumoSemTransferencias ==
    ultimo.op = "resumo" =>
        LET p == DoMes(ultimo.df, ultimo.data_inicio, ultimo.data_fim)
            Comum(r) == r.Categoria # "Transferência"
            Interna(r) == r.Categoria = "Transferência"
            todas == {ultimo.df[i].Conta : i \in 1..Len(ultimo.df)}
        IN  /\ ultimo.resumo.receitas_periodo - ultimo.resumo.despesas_periodo
                 = SomaAssinada(Filtrar(p, Comum), todas, ultimo.data_fim)
            /\ ultimo.resumo.balanco_transferencias
                 = SomaAssinada(Filtrar(p, Interna), todas, ultimo.data_fim)
            /\ \A i \in 1..Len(p) :
                 p[i].Categoria = "Transferência" =>
                    /\ ultimo.resumo.receitas_periodo
                         = ResumoDoPeriodo(SemLinha(p, i), ultimo.data_inicio,
                                           ultimo.data_fim, contas).receitas_periodo
                    /\ ultimo.resumo.despesas_periodo
                         = ResumoDoPeriodo(SemLinha(p, i), ultimo.data_inicio,
                                           ultimo.data_fim, contas).despesas_periodo
            /\ ultimo.resumo.saldo_atual_total
                 = ultimo.resumo.saldo_inicial_total + ultimo.resumo.receitas_periodo
                     - ultimo.resumo.despesas_periodo + ultimo.resumo.balanco_transferencias
            /\ ultimo.resumo.saldo_atual_total
                 = ultimo.resumo.saldo_inicial_total
                     + SomaAssinada(ultimo.df, todas, ultimo.data_fim)
                     - SomaAssinada(ultimo.df, todas, ultimo.data_inicio)

ResumoSemTransferencias_witness ==
    /\ ultimo.op = "resumo"
    /\ ultimo.data_inicio = 2
    /\ ultimo.data_fim = 3
    /\ Len(ultimo.df) = 2
    /\ ultimo.df[1].Categoria = "Transferência" /\ ultimo.df[1].Tipo = "Despesa"
    /\ ultimo.df[1].Data = 2
    /\ ultimo.df[2].Categoria = "Casa" /\ ultimo.df[2].Valor = 30000 /\ ultimo.df[2].Data = 2
    /\ ultimo.resumo.despesas_periodo = 30000
    /\ ultimo.resumo.balanco_transferencias = 0 - 7000
    /\ ultimo.resumo.saldo_atual_total = ultimo.resumo.saldo_inicial_total - 37000

(***************************************************************************)
(* SpecCache: the pages read through the global carregar_dados(), cached   *)
(* by st.cache_data(ttl=60), and clear the cache after a write that        *)
(* succeeded.  The 60 seconds are one step: the entry is fresh or expired. *)
(***************************************************************************)
Escritas == {"append", "update", "delete"}

\* a write of a page that left the cache as it was
CacheApos_sem_clear(r, c) == c

\* `if sucesso: ... st.cache_data.clear()` after a write that returned r
CacheApos(r, c) == IF r.ok THEN CacheVazio ELSE c

\* what a read remembers of the call before it
Anterior(u) ==
    [op |-> u.op, ok |-> u.ok,
     em_cache |-> IF u.op \in Escritas THEN u.em_cache ELSE FALSE,
     df_cache |-> IF u.op \in Escritas THEN u.df_cache ELSE <<>>]

\* a write of a page: the call of the storage, then the cache
EscritaDaPagina(op, r) ==
    /\ Passa(r)
    /\ cache' = CacheApos(r, cache)
    /\ ultimo' = [op |-> op, ok |-> r.ok, em_cache |-> cache.cheio /\ ~cache.expirado,
                  df_cache |-> cache.df]
    /\ UNCHANGED <<tela, sessoes>>

RegistrarNaPagina ==
    /\ modo # "None"
    /\ \E amb \in AmbientesDe(Estado, {"ok", "erro"}, {"aceito"}), t \in Transacoes :
        EscritaDaPagina("append", salvar_transacao(Estado, t, amb))

EditarNaPagina ==
    /\ modo # "None"
    /\ \E amb \in AmbientesDe(Estado, {"ok", "erro"}, {"aceito"}), i \in Indices, t \in Transacoes :
        EscritaDaPagina("update", editar_transacao(Estado, i, t, amb))

ExcluirNaPagina ==
    /\ modo # "None"
    /\ \E amb \in AmbientesDe(Estado, {"ok", "erro"}, {"aceito"}), i \in Indices :
        EscritaDaPagina("delete", excluir_transacao(Estado, i, amb))

\* carregar_dados() answered by the entry of the cache
LeituraDoCache ==
    /\ ultimo' = [op |-> "ler", ok |-> TRUE, df |-> cache.df, acerto |-> TRUE,
                  antes |-> Anterior(ultimo)]
    /\ UNCHANGED <<credenciais, gspread, modo, worksheet, planilha, csv, contas, tela, cache,
                   sessoes>>

\* carregar_dados() answered by the storage, the answer r stored in the cache
LeituraDoArmazenamento(r) ==
    /\ Passa(r)
    /\ cache' = [cheio |-> TRUE, expirado |-> FALSE, df |-> r.df]
    /\ ultimo' = [op |-> "ler", ok |-> TRUE, df |-> r.df, acerto |-> FALSE,
                  antes |-> Anterior(ultimo)]
    /\ UNCHANGED <<tela, sessoes>>

\* the global carregar_dados() of utils.py
LerComCache ==
    /\ modo # "None"
    /\ IF cache.cheio /\ ~cache.expirado THEN LeituraDoCache
       ELSE LeituraDoArmazenamento(carregar_dados(Estado, AmbienteOk))

\* 60 seconds go by since the entry was stored
PassarTTL ==
    /\ cache.cheio
    /\ ~cache.expirado
    /\ cache' = [cache EXCEPT !.expirado = TRUE]
    /\ UNCHANGED <<credenciais, gspread, modo, worksheet, planilha, csv, contas, tela, sessoes,
                   ultimo>>

InitCache ==
    /\ credenciais \in BOOLEAN
    /\ gspread = credenciais
    /\ modo = "None"
    /\ worksheet = "None"
    /\ planilha = [cab |-> TRUE, linhas |-> <<>>]
    /\ csv \in {ArquivoAusente, Arquivo(<<>>)}
    /\ contas = SemContas
    /\ tela = ""
    /\ cache = CacheVazio
    /\ sessoes = SemSessoes
    /\ ultimo = Chamada("nenhuma", "None", SemTransacao, 0, <<>>, SemForm,
                        Retorno(Estado, TRUE, ""))

NextCache ==
    \/ Construir
    \/ RegistrarNaPagina
    \/ EditarNaPagina
    \/ ExcluirNaPagina
    \/ LerComCache
    \/ PassarTTL

SpecCache == InitCache /\ [][NextCache]_vars

\* C23: after an append, update or delete of a page that succeeded the cache
\* holds no table, so the next carregar_dados() is answered by the storage
\* with the table as the write left it, also before the 60 seconds are over.
CacheLimpoAposEscrita ==
    /\ (ultimo.op \in Escritas /\ ultimo.ok) => ~cache.cheio
    /\ (ultimo.op = "ler" /\ ultimo.antes.op \in Escritas /\ ultimo.antes.ok) =>
            /\ ~ultimo.acerto
            /\ ultimo.df = carregar_dados(Estado, AmbienteOk).df

CacheLimpoAposEscrita_witness ==
    /\ ultimo.op = "ler"
    /\ ultimo.antes.op = "append"
    /\ ultimo.antes.ok
    /\ ultimo.antes.em_cache
    /\ ultimo.antes.df_cache = <<>>
    /\ Len(ultimo.df) = 1
    /\ cache.df = ultimo.df

(***************************************************************************)
(* SpecSessoes: two browser sessions on one local file.  Each runs its own *)
(* script; _salvar_transacao_csv reads the file and later rewrites it, and *)
(* nothing keeps the other session from running in between.  A session     *)
(* shows the table of its last load and picks indices from it.             *)
(***************************************************************************)
\* _salvar_transacao_csv up to pd.concat: the table read and the new row
LidoParaAcrescentar(e, t) ==
    IF exists(e.csv) THEN _normalizar_dados(read_csv(e.csv)) \o <<NovaLinha(t)>>
    ELSE _criar_df_vazio \o <<NovaLinha(t)>>

\* a rewrite that reads the file again and adds its row to what it finds
TabelaAGravar_relida(pendente, e) ==
    LidoParaAcrescentar(e, [data |-> pendente[Len(pendente)].Data,
                            descricao |-> pendente[Len(pendente)].Descricao,
                            categoria |-> pendente[Len(pendente)].Categoria,
                            valor |-> pendente[Len(pendente)].Valor,
                            tipo |-> pendente[Len(pendente)].Tipo,
                            conta |-> pendente[Len(pendente)].Conta])

\* `return self._salvar_dados_csv(df)`: df is the table built from the read
TabelaAGravar(pendente, e) == pendente

ChamadaSessao(op, s, ok, indice, visto, antes, lidas) ==
    [op |-> op, sessao |-> s, ok |-> ok, indice |-> indice, visto |-> visto, antes |-> antes,
     lidas |-> lidas]

\* a session runs its script: df = carregar_dados()
CarregadoNaSessao(s, r) ==
    /\ Passa(r)
    /\ sessoes' = [sessoes EXCEPT ![s].df = r.df]
    /\ ultimo' = ChamadaSessao("load", s, TRUE, 0, <<>>, r.df, 0)
    /\ UNCHANGED <<tela, cache>>

CarregarNaSessao ==
    /\ modo # "None"
    /\ \E s \in Sessoes :
        /\ sessoes[s].pc = "pronta"
        /\ CarregadoNaSessao(s, carregar_dados(Estado, AmbienteOk))

\* the first half of _salvar_transacao_csv in session s
LerParaAcrescentar ==
    /\ modo = "csv"
    /\ csv.st # "ilegivel"
    /\ \E s \in Sessoes, t \in Transacoes :
        /\ sessoes[s].pc = "pronta"
        /\ Len(LidoParaAcrescentar(Estado, t)) <= MaxLinhas
        /\ sessoes' = [sessoes EXCEPT ![s].pc = "gravar",
                                      ![s].pendente = LidoParaAcrescentar(Estado, t)]
        /\ ultimo' = ChamadaSessao("ler", s, TRUE, 0, <<>>, <<>>,
                                   Len(LidoParaAcrescentar(Estado, t)) - 1)
        /\ UNCHANGED <<credenciais, gspread, modo, worksheet, planilha, csv, contas, tela,
                       cache>>

\* the second half in session s: the rewrite, which returned r
Gravado(s, r) ==
    /\ Passa(r)
    /\ sessoes' = [sessoes EXCEPT ![s].pc = "pronta", ![s].pendente = <<>>,
                                  ![s].fez = IF r.ok THEN "append_ok" ELSE "append_falhou"]
    /\ ultimo' = ChamadaSessao("append", s, r.ok, 0, sessoes[s].pendente[Len(sessoes[s].pendente)],
                               carregar_dados(Estado, AmbienteOk).df,
                               Len(sessoes[s].pendente) - 1)
    /\ UNCHANGED <<tela, cache>>

GravarAcrescimo ==
    \E s \in Sessoes :
        /\ sessoes[s].pc = "gravar"
        /\ Gravado(s, _salvar_dados_csv(Estado, TabelaAGravar(sessoes[s].pendente, Estado),
                                        AmbienteOk))

\* excluir_transacao(i) or editar_transacao(i, t) of session s, i an index of
\* the table the session shows
PorIndice(op, s, i, r) ==
    /\ Passa(r)
    /\ UNCHANGED sessoes
    /\ ultimo' = ChamadaSessao(op, s, r.ok, i, sessoes[s].df[i + 1],
                               carregar_dados(Estado, AmbienteOk).df, 0)
    /\ UNCHANGED <<tela, cache>>

ExcluirNaSessao ==
    /\ modo # "None"
    /\ \E s \in Sessoes :
        /\ sessoes[s].pc = "pronta"
        /\ \E i \in 0..(Len(sessoes[s].df) - 1) :
            PorIndice("delete", s, i, excluir_transacao(Estado, i, AmbienteOk))

EditarNaSessao ==
    /\ modo # "None"
    /\ \E s \in Sessoes :
        /\ sessoes[s].pc = "pronta"
        /\ \E i \in 0..(Len(sessoes[s].df) - 1), t \in Transacoes :
            PorIndice("update", s, i, editar_transacao(Estado, i, t, AmbienteOk))

InitSessoes ==
    /\ credenciais = FALSE
    /\ gspread = FALSE
    /\ modo = "None"
    /\ worksheet = "None"
    /\ planilha = [cab |-> TRUE, linhas |-> <<>>]
    /\ csv = Arquivo(<<>>)
    /\ contas = SemContas
    /\ tela = ""
    /\ cache = CacheVazio
    /\ sessoes = SemSessoes
    /\ ultimo = ChamadaSessao("nenhuma", "", TRUE, 0, <<>>, <<>>, 0)

\* get_armazenamento() of the first session that runs
ConstruirSessoes ==
    /\ modo = "None"
    /\ Passa(Construido(Estado, credenciais, gspread, AmbienteOk))
    /\ ultimo' = ChamadaSessao("init", "", TRUE, 0, <<>>, <<>>, 0)
    /\ UNCHANGED <<tela, cache, sessoes>>

\* salvar_transacao of session s with no other session running in between
AcrescentarNaSessao ==
    /\ modo # "None"
    /\ \E s \in Sessoes, t \in Transacoes :
        /\ sessoes[s].pc = "pronta"
        /\ Passa(salvar_transacao(Estado, t, AmbienteOk))
        /\ ultimo' = ChamadaSessao("append", s, salvar_transacao(Estado, t, AmbienteOk).ok, 0,
                                   <<>>, <<>>, 0)
        /\ UNCHANGED <<tela, cache, sessoes>>

\* the appends of the two sessions, step by step
NextSessoes ==
    \/ ConstruirSessoes
    \/ CarregarNaSessao
    \/ LerParaAcrescentar
    \/ GravarAcrescimo

SpecSessoes == InitSessoes /\ [][NextSessoes]_vars

\* the sessions loading, appending and acting on indices of what they loaded
NextIndices ==
    \/ ConstruirSessoes
    \/ CarregarNaSessao
    \/ AcrescentarNaSessao
    \/ ExcluirNaSessao
    \/ EditarNaSessao

SpecIndices == InitSessoes /\ [][NextIndices]_vars

\* C24: nothing locks the local file: a rewrite stores the rows its session
\* read and its record and returns success whatever the file held by then,
\* so when the append of the other session completed between the read and
\* the rewrite, both returned success and one record is gone.
AtualizacaoPerdida ==
    (ultimo.op = "append" /\ ultimo.ok) =>
        /\ Len(csv.linhas) = ultimo.lidas + 1
        /\ Len(ultimo.antes) > ultimo.lidas => Len(csv.linhas) <= Len(ultimo.antes)

AtualizacaoPerdida_witness ==
    /\ ultimo.op = "append"
    /\ ultimo.ok
    /\ ultimo.sessao = "a"
    /\ sessoes["a"].fez = "append_ok"
    /\ sessoes["b"].fez = "append_ok"
    /\ ultimo.lidas = 0
    /\ Len(ultimo.antes) = 1
    /\ ultimo.antes[1].Descricao # ultimo.visto.Descricao
    /\ Len(csv.linhas) = 1
    /\ csv.linhas[1].Descricao = ultimo.visto.Descricao

ModoSoRebaixa ==
    [][modo # "None" =>
          \/ modo' = modo
          \/ modo \in {"gsheets", "memoria"} /\ modo' = "csv"]_vars

ModoSoRebaixa_witness ==
    /\ ultimo.op = "load"
    /\ ultimo.de = "gsheets"
    /\ modo = "csv"

\* the table a load presents of the stores e
Apresentada(e) == carregar_dados(e, AmbienteOk).df

\* delete(i) on the stores as they are removed the row presented at position i
ExcluiApresentada(i) ==
    excluir_transacao(Estado, i, AmbienteOk).ok =>
        Apresentada(excluir_transacao(Estado, i, AmbienteOk).e)
            = SemLinha(Apresentada(Estado), i + 1)

\* update(i, t) on the stores as they are left the other presented rows alone
EditaApresentada(i, t) ==
    editar_transacao(Estado, i, t, AmbienteOk).ok =>
        /\ Len(Apresentada(editar_transacao(Estado, i, t, AmbienteOk).e))
              = Len(Apresentada(Estado))
        /\ \A j \in 1..Len(Apresentada(Estado)) :
              j # i + 1 =>
                 Apresentada(editar_transacao(Estado, i, t, AmbienteOk).e)[j]
                     = Apresentada(Estado)[j]

\* C27: in mode gsheets, for every content of the sheet and every index i of
\* the table a load presents, a delete(i) or update(i, r) that succeeds acts
\* on the row presented at position i, also when the sheet holds rows that
\* the normalization drops before it.
AgeNaLinhaApresentada ==
    (modo = "gsheets" /\ worksheet # "None" /\ planilha.cab) =>
        \A i \in 0..(Len(Apresentada(Estado)) - 1) :
            /\ ExcluiApresentada(i)
            /\ \A t \in Transacoes : EditaApresentada(i, t)

\* update(i, t) and delete(i) on the stores as they are, under amb, are
\* refused and leave the file as it is
RecusaIndice(i, t, amb) ==
    /\ ~editar_transacao(Estado, i, t, amb).ok
    /\ editar_transacao(Estado, i, t, amb).e.csv = csv
    /\ ~excluir_transacao(Estado, i, amb).ok
    /\ excluir_transacao(Estado, i, amb).e.csv = csv

\* C28: in mode csv an update or a delete with an index outside 0..n-1, n
\* the number of rows of the normalized file, returns (False, message) and
\* leaves the rows of the file as they are; an update never adds a row.
ForaDoIntervaloRecusa ==
    (modo = "csv" /\ csv.st = "ok") =>
        \A i \in Indices :
            i \notin 0..(Len(_carregar_csv(Estado).df) - 1) =>
                \A t \in Transacoes, amb \in AmbientesDe(Estado, {"ok"}, {"aceito"}) :
                    RecusaIndice(i, t, amb)

(***************************************************************************)
(* The management modal: the ten most recent rows and the index it passes  *)
(* to the storage.                                                         *)
(***************************************************************************)
UltimasDez == 10

\* transactions the modal is used with: two of them share description and
\* amount
TransacoesModal ==
    Transacoes \cup
    {[data |-> 2, descricao |-> Luz, categoria |-> "Casa", valor |-> 1050,
      tipo |-> "Despesa", conta |-> "Nubank"]}

\* df.sort_values('Data', ascending=False).head(10): the positions of df,
\* from 0, a row of which may be among the ten shown
head(df) ==
    {i \in 0..(Len(df) - 1) :
        Cardinality({j \in 1..Len(df) : df[j].Data > df[i + 1].Data}) < UltimasDez}

\* the rows of df.reset_index(drop=True) with the description and the amount
\* of row
Iguais(df, row) ==
    {i \in 0..(Len(df) - 1) :
        df[i + 1].Descricao = row.Descricao /\ df[i + 1].Valor = row.Valor}

\* `idx_original = idx_original[0] if len(idx_original) > 0 else 0`
idx_original(df, row) ==
    IF Iguais(df, row) = {} THEN 0
    ELSE CHOOSE i \in Iguais(df, row) : \A j \in Iguais(df, row) : i <= j

\* the modal of session s acted on the row it shows for position sel of df
NoModal(op, s, sel, r) ==
    /\ Passa(r)
    /\ UNCHANGED sessoes
    /\ ultimo' = ChamadaSessao(op, s, r.ok, idx_original(sessoes[s].df, sessoes[s].df[sel + 1]),
                               sessoes[s].df[sel + 1],
                               carregar_dados(Estado, AmbienteOk).df, sel)
    /\ UNCHANGED <<tela, cache>>

\* the "Nova" tab: salvar_transacao
AcrescentarNoModal ==
    /\ modo # "None"
    /\ \E s \in Sessoes, t \in TransacoesModal :
        /\ sessoes[s].pc = "pronta"
        /\ Passa(salvar_transacao(Estado, t, AmbienteOk))
        /\ ultimo' = ChamadaSessao("append", s, salvar_transacao(Estado, t, AmbienteOk).ok, 0,
                                   <<>>, <<>>, 0)
        /\ UNCHANGED <<tela, cache, sessoes>>

\* the button of a row of the "Excluir" tab
ExcluirNoModal ==
    /\ modo # "None"
    /\ \E s \in Sessoes :
        /\ sessoes[s].pc = "pronta"
        /\ \E sel \in head(sessoes[s].df) :
            NoModal("delete", s, sel,
                    excluir_transacao(Estado,
                                      idx_original(sessoes[s].df, sessoes[s].df[sel + 1]),
                                      AmbienteOk))

\* the form of the "Editar" tab, submitted with a description and an amount
\* the form accepts
EditarNoModal ==
    /\ modo # "None"
    /\ \E s \in Sessoes :
        /\ sessoes[s].pc = "pronta"
        /\ \E sel \in head(sessoes[s].df), t \in TransacoesModal :
            NoModal("update", s, sel,
                    editar_transacao(Estado,
                                     idx_original(sessoes[s].df, sessoes[s].df[sel + 1]),
                                     t, AmbienteOk))

NextModal ==
    \/ ConstruirSessoes
    \/ CarregarNaSessao
    \/ AcrescentarNoModal
    \/ ExcluirNoModal
    \/ EditarNoModal

SpecModal == InitSessoes /\ [][NextModal]_vars

\* C29: the modal, acting on the table it loaded while the stored table is
\* still that one, deletes or edits the row the user selected: the delete
\* leaves the table without the row at the selected position, the update
\* leaves every other row as it was.
ModalAgeNaSelecionada ==
    (/\ ultimo.op \in {"delete", "update"}
     /\ ultimo.sessao \in Sessoes
     /\ ultimo.ok
     /\ sessoes[ultimo.sessao].df = ultimo.antes) =>
        /\ ultimo.op = "delete" =>
              carregar_dados(Estado, AmbienteOk).df = SemLinha(ultimo.antes, ultimo.lidas + 1)
        /\ ultimo.op = "update" =>
              /\ Len(carregar_dados(Estado, AmbienteOk).df) = Len(ultimo.antes)
              /\ \A j \in 1..Len(ultimo.antes) :
                    j # ultimo.lidas + 1 =>
                        carregar_dados(Estado, AmbienteOk).df[j] = ultimo.antes[j]

\* C30: in mode gsheets a salvar_dados that returns (False, message) leaves
\* the sheet with the header and the rows it held before the call, whichever
\* of the remote calls failed.
SalvamentoFalhoConserva ==
    modo = "gsheets" =>
        \A df \in TabelasEntrada,
           amb \in AmbientesDe(Estado, {"ok", "erro", "erro_cab", "erro_linhas"}, {"aceito"}) :
            ~salvar_dados(Estado, df, amb).ok =>
                salvar_dados(Estado, df, amb).e.planilha = planilha

====
